---------------------------- MODULE Spec2Model ----------------------------
(***************************************************************************)
(* Xbox 360 racing wheel -> CRSF bridge (nuketownada/xbox-elrs).           *)
(*                                                                         *)
(* The module holds several specifications over one set of variables:      *)
(*   SpecMixer  channel_mixer.c : mixer_process as a function of the       *)
(*              controller state and the mixer configuration               *)
(*   SpecCrsf   crsf.c          : the channel store, its API and the       *)
(*              periodic transmitter, with a clock                         *)
(*   Spec       main.c + crsf.c : state callback, forwarding task and      *)
(*              transmitter task composed (FairSpec adds the scheduler's   *)
(*              fairness)                                                  *)
(*   SpecRecv   xbox_receiver.c : report parser and device session         *)
(* A specification leaves the variables of the other parts unchanged.      *)
(***************************************************************************)
EXTENDS Integers, Sequences, FiniteSets, TLC

VARIABLES
    \* ---- channel_mixer.c
    s_config,             \* static mixer_config_t s_config
    mx_state,             \* argument xbox_state of mixer_process
    mx_out,               \* argument crsf_out of mixer_process (NoVec before the call)
    mx_pc,                \* "ready" before mixer_process has run, "done" after
    mx_seen,              \* history: the values s_config held while mixer_process ran
    \* ---- crsf.c
    s_channels,           \* static crsf_channels_t s_channels
    s_failsafe_channels,  \* static crsf_channels_t s_failsafe_channels
    s_channels_mutex,     \* holder of s_channels_mutex: "free", "tx", "api" or "fwd"
    s_running,            \* static bool s_running
    uart,                 \* the last frame given to uart_write_bytes (NoVec: none yet)
    tx_pc,                \* crsf_task: "wait" (vTaskDelayUntil / about to take) or "locked"
    api_pc,               \* a caller of the crsf API: ApiIdle or the call holding the mutex
    api_last,             \* history: the last crsf_set_channel call that returned
    \* ---- the clock, and the watchdog state of the design (history variables:
    \* ---- crsf.c keeps no such state, these record what the design's
    \* ---- record_update would have stored)
    tick,                 \* xTaskGetTickCount()
    ever_updated,         \* a crsf_set_channels call has stored a vector
    last_update_tick,     \* tick of the last such store
    upd_stale,            \* the last store happened while the watchdog condition held
    upd_sent,             \* a frame has been sent since the last store
    upd_vec,              \* the vector of the last store (NoVec: none yet)
    tx_log,               \* facts about the send of the frame in uart (NoLog: none yet)
    \* ---- main.c
    g_channels,           \* static crsf_channels_t g_channels
    g_channels_mutex,     \* holder of g_channels_mutex: "free", "cb" or "fwd"
    cb_pc,                \* xbox_state_callback: CbIdle, or holding the mutex with the
                          \* vector it is about to store
    fwd_pc,               \* crsf_send_task: "wait", "has_g" or "has_gs"
    cb_disc,              \* history: the last callback for slot 0 had connected == false
    \* ---- xbox_receiver.c
    s_controller_state,   \* static xbox_controller_state_t s_controller_state[XBOX_SLOT_MAX]
    s_state_mutex,        \* holder of s_state_mutex: "free" or "api"
    s_receiver_connected, s_opening_device, s_device_gone,
    s_device_hdl,         \* TRUE when s_device_hdl != NULL
    s_in_xfer,            \* "null", "idle", "inflight" or "done" (completed, callback pending)
    in_result,            \* status and data of the completed IN transfer
    s_out_xfer,           \* "null", "idle" or "inflight"
    s_out_pending,
    s_ep_in_addr, s_ep_out_addr, s_pending_dev_addr, s_device_addr,
    s_device_sem,         \* binary semaphore: 0 or 1
    open_pc,              \* device_task: "idle" or its position inside open_device
    open_i,               \* loop counter of the stability wait
    bus_present,          \* the receiver is plugged in
    client_events,        \* events queued for the USB client task
    get_pc,               \* xbox_receiver_get_state: the slot being copied, or GetIdle
    get_last,             \* history: the last xbox_receiver_get_state call that returned
    led_pc,               \* position of each caller inside send_player_led
    rx_last               \* history: the last handler the client task ran

mixerVars == <<s_config, mx_state, mx_out, mx_pc, mx_seen>>

crsfVars == <<s_channels, s_failsafe_channels, s_channels_mutex, s_running, uart,
              tx_pc, api_pc, api_last>>

clockVars == <<tick, ever_updated, last_update_tick, upd_stale, upd_sent, upd_vec,
               tx_log>>

mainVars == <<g_channels, g_channels_mutex, cb_pc, fwd_pc, cb_disc>>

recvVars == <<s_controller_state, s_state_mutex, s_receiver_connected, s_opening_device,
              s_device_gone, s_device_hdl, s_in_xfer, in_result, s_out_xfer, s_out_pending,
              s_ep_in_addr, s_ep_out_addr, s_pending_dev_addr, s_device_addr, s_device_sem,
              open_pc, open_i, bus_present, client_events, get_pc, get_last, led_pc,
              rx_last>>

vars == <<mixerVars, crsfVars, clockVars, mainVars, recvVars>>

-----------------------------------------------------------------------------
(* C integer arithmetic                                                    *)

\* C's '/' on ints truncates toward zero (\div floors).
CDiv(a, b) ==
    IF (a >= 0) = (b > 0) \/ a = 0
    THEN (IF a >= 0 THEN a ELSE -a) \div (IF b >= 0 THEN b ELSE -b)
    ELSE -((IF a >= 0 THEN a ELSE -a) \div (IF b >= 0 THEN b ELSE -b))

\* conversion to int16_t / uint16_t / uint8_t (two's complement wrap)
ToInt16(x) == ((x + 32768) % 65536) - 32768
ToUint16(x) == x % 65536
ToUint8(x) == x % 256

\* C's bit operators on non-negative ints
RECURSIVE BitAnd(_, _)
BitAnd(a, b) ==
    IF a = 0 \/ b = 0 THEN 0
    ELSE (IF a % 2 = 1 /\ b % 2 = 1 THEN 1 ELSE 0) + 2 * BitAnd(a \div 2, b \div 2)

RECURSIVE BitOr(_, _)
BitOr(a, b) ==
    IF a = 0 THEN b
    ELSE IF b = 0 THEN a
    ELSE (IF a % 2 = 1 \/ b % 2 = 1 THEN 1 ELSE 0) + 2 * BitOr(a \div 2, b \div 2)

RECURSIVE BitXor(_, _)
BitXor(a, b) ==
    IF a = 0 THEN b
    ELSE IF b = 0 THEN a
    ELSE (IF (a % 2) # (b % 2) THEN 1 ELSE 0) + 2 * BitXor(a \div 2, b \div 2)

Shl(a, k) == a * (2 ^ k)
Shr(a, k) == a \div (2 ^ k)

-----------------------------------------------------------------------------
(* crsf.h                                                                  *)

CRSF_CHANNEL_MIN == 172
CRSF_CHANNEL_MID == 992
CRSF_CHANNEL_MAX == 1811
CRSF_NUM_CHANNELS == 16

Channels == 0 .. (CRSF_NUM_CHANNELS - 1)

\* a crsf_channels_t whose 16 elements are all CRSF_CHANNEL_MID
AllMid == [i \in Channels |-> CRSF_CHANNEL_MID]

\* no vector yet (an out-parameter before the call, a frame before the first send)
NoVec == <<>>

crsf_scale_axis(value) ==
    ToUint16(CDiv((value + 32768) * (CRSF_CHANNEL_MAX - CRSF_CHANNEL_MIN), 65535)
             + CRSF_CHANNEL_MIN)

\* crsf_scale_trigger without the CRSF_CHANNEL_MIN offset
crsf_scale_trigger_nomin(value) ==
    ToUint16(CDiv(value * (CRSF_CHANNEL_MAX - CRSF_CHANNEL_MIN), 255))

crsf_scale_trigger(value) ==
    ToUint16(CDiv(value * (CRSF_CHANNEL_MAX - CRSF_CHANNEL_MIN), 255) + CRSF_CHANNEL_MIN)

crsf_scale_switch(value) == IF value THEN CRSF_CHANNEL_MAX ELSE CRSF_CHANNEL_MIN

-----------------------------------------------------------------------------
(* channel_mixer.h                                                         *)

RC_CH_AILERON == 0
RC_CH_THROTTLE == 2
RC_CH_RUDDER == 3
RC_CH_AUX1 == 4
RC_CH_AUX2 == 5
RC_CH_AUX3 == 6
RC_CH_AUX4 == 7
RC_CH_AUX5 == 8
RC_CH_AUX6 == 9
RC_CH_AUX7 == 10

MIX_MODE_SEPARATE == 0
MIX_MODE_COMBINED == 1
MIX_MODE_THROTTLE_ONLY == 2

MIXER_CONFIG_DEFAULT ==
    [ throttle_mode |-> MIX_MODE_COMBINED,
      expo |-> [steering |-> 0, throttle |-> 0],
      deadband |-> [steering |-> 3, throttle |-> 2],
      steering_invert |-> FALSE,
      steering_endpoint_left |-> 27,
      steering_endpoint_right |-> 28,
      throttle_invert |-> FALSE,
      throttle_endpoint |-> 46,
      brake_endpoint |-> 28,
      arm_channel |-> RC_CH_AUX1,
      paddle_left_channel |-> RC_CH_AUX2,
      paddle_right_channel |-> RC_CH_AUX3,
      button_a_channel |-> RC_CH_AUX4,
      button_b_channel |-> RC_CH_AUX5,
      button_x_channel |-> RC_CH_AUX6,
      button_y_channel |-> RC_CH_AUX7 ]

-----------------------------------------------------------------------------
(* channel_mixer.c                                                         *)

Abs(x) == IF x >= 0 THEN x ELSE -x

\* The source computes the curve in float; the model is exact for expo = 0 and
\* for value = 0 and uses a 15-bit fixed-point evaluation of the same formula
\* elsewhere (32-bit safe).
mixer_apply_expo(value, expo) ==
    IF expo = 0 THEN value
    ELSE LET e == ToUint8(expo + 128) - 128          \* int8_t parameter
             linear == value * (100 - Abs(e))
             cubic == CDiv(CDiv(value * value, 32768) * value, 32768) * e
         IN ToInt16(CDiv(CDiv(linear + cubic, 100) * 32767, 32768))

mixer_apply_deadband(value, deadband) ==
    IF deadband = 0 THEN value
    ELSE LET db_threshold == CDiv(32768 * deadband, 100)
         IN IF value > -db_threshold /\ value < db_threshold THEN 0
            ELSE IF value >= db_threshold
                 THEN ToInt16(CDiv((value - db_threshold) * 32767, 32768 - db_threshold))
                 ELSE ToInt16(CDiv((value + db_threshold) * 32767, 32768 - db_threshold))

apply_endpoint(value, endpoint_percent) ==
    IF endpoint_percent >= 100 THEN value
    ELSE ToInt16(CDiv(value * endpoint_percent, 100))

\* crsf_out->ch[idx] = val.  The array has 16 elements; a store at another
\* index lands outside it, which the model records as an extra domain element.
Store(ch, idx, val) ==
    IF idx \in DOMAIN ch THEN [ch EXCEPT ![idx] = val] ELSE (idx :> val) @@ ch

\* the steering section of mixer_process (lines 145-173)
MixSteering(st, cfg) ==
    LET s0 == IF st.left_stick_x >= 0
              THEN ToInt16(32767 - st.left_stick_x)
              ELSE ToInt16(-32767 - st.left_stick_x)
        s1 == mixer_apply_deadband(s0, cfg.deadband.steering)
        s2 == mixer_apply_expo(s1, cfg.expo.steering)
        s3 == IF cfg.steering_invert THEN ToInt16(-s2) ELSE s2
        s4 == IF s3 >= 0 THEN apply_endpoint(s3, cfg.steering_endpoint_right)
                         ELSE apply_endpoint(s3, cfg.steering_endpoint_left)
    IN crsf_scale_axis(s4)

\* case MIX_MODE_COMBINED (lines 184-210): the throttle channel value
MixCombined(st, cfg) ==
    LET combined == ToInt16(st.right_trigger - st.left_trigger)
        sc0 == ToInt16(CDiv(combined * 32767, 255))
        sc1 == mixer_apply_expo(sc0, cfg.expo.throttle)
        sc2 == IF sc1 >= 0 THEN apply_endpoint(sc1, cfg.throttle_endpoint)
                           ELSE apply_endpoint(sc1, cfg.brake_endpoint)
        sc3 == IF cfg.throttle_invert THEN ToInt16(-sc2) ELSE sc2
    IN crsf_scale_axis(sc3)

\* cases MIX_MODE_SEPARATE / MIX_MODE_THROTTLE_ONLY: the throttle channel value
MixThrottleOnly(st, cfg) ==
    LET throttle_scaled == ToUint8(CDiv(st.right_trigger * cfg.throttle_endpoint, 100))
    IN crsf_scale_trigger(ToUint8(IF cfg.throttle_invert THEN 255 - throttle_scaled
                                                         ELSE throttle_scaled))

\* case MIX_MODE_SEPARATE: the brake (rudder) channel value
MixBrake(st, cfg) ==
    crsf_scale_trigger(ToUint8(CDiv(st.left_trigger * cfg.brake_endpoint, 100)))

\* the throttle / brake section of mixer_process (lines 175-235) applied to
\* the output c0 written so far
MixThrottleSection(c0, st, cfg) ==
    IF cfg.throttle_mode = MIX_MODE_COMBINED
        THEN Store(c0, RC_CH_THROTTLE, MixCombined(st, cfg))
    ELSE IF cfg.throttle_mode = MIX_MODE_SEPARATE
        THEN Store(Store(c0, RC_CH_THROTTLE, MixThrottleOnly(st, cfg)),
                   RC_CH_RUDDER, MixBrake(st, cfg))
    ELSE IF cfg.throttle_mode = MIX_MODE_THROTTLE_ONLY
        THEN Store(c0, RC_CH_THROTTLE, MixThrottleOnly(st, cfg))
    ELSE c0

\* the button section of mixer_process (lines 237-268) applied to the output
\* c1 written so far
MixButtonSection(c1, st, cfg) ==
    LET c2 == Store(c1, cfg.paddle_left_channel,
                    crsf_scale_switch(st.buttons.lb \/ st.buttons.a))
        c3 == Store(c2, cfg.paddle_right_channel,
                    crsf_scale_switch(st.buttons.rb \/ st.buttons.b))
        c4 == IF cfg.button_a_channel < CRSF_NUM_CHANNELS
              THEN Store(c3, cfg.button_a_channel, crsf_scale_switch(st.buttons.a)) ELSE c3
        c5 == IF cfg.button_b_channel < CRSF_NUM_CHANNELS
              THEN Store(c4, cfg.button_b_channel, crsf_scale_switch(st.buttons.b)) ELSE c4
        c6 == IF cfg.button_x_channel < CRSF_NUM_CHANNELS
              THEN Store(c5, cfg.button_x_channel, crsf_scale_switch(st.buttons.x)) ELSE c5
        c7 == IF cfg.button_y_channel < CRSF_NUM_CHANNELS
              THEN Store(c6, cfg.button_y_channel, crsf_scale_switch(st.buttons.y)) ELSE c6
    IN c7

\* mixer_process for a connected controller (lines 140-268), section by section
MixConnected(st, cfg) ==
    LET c0 == Store(AllMid, RC_CH_AILERON, MixSteering(st, cfg))
        c1 == MixThrottleSection(c0, st, cfg)
    IN MixButtonSection(c1, st, cfg)

\* mixer_process without the early return of the disconnected branch
mixer_process_noreturn(st, cfg) ==
    MixConnected(st, cfg)

mixer_process(st, cfg) ==
    IF ~st.connected
    THEN [AllMid EXCEPT ![RC_CH_THROTTLE] = CRSF_CHANNEL_MIN]
    ELSE MixConnected(st, cfg)

-----------------------------------------------------------------------------
(* Inputs of the mixer                                                     *)

\* half-width of the window of steering values taken around each SteerPoint
SteerSpread == 1

\* left_stick_x values around which mixer_process changes behaviour: the int16
\* rails, the sign change, the mid-scale values and the deadband threshold
\* (32767 - 983) on either side
SteerPoints == {-32768, -31784, -16384, -1, 0, 16384, 31784, 32767}

SteerSamples ==
    {p + k : p \in SteerPoints, k \in (-SteerSpread) .. SteerSpread} \cap (-32768 .. 32767)

TriggerSamples == {0, 1, 50, 255}

ButtonNames ==
    {"dpad_up", "dpad_down", "dpad_left", "dpad_right", "start", "back",
     "left_stick", "right_stick", "lb", "rb", "guide", "a", "b", "x", "y"}

\* xbox_buttons_t with exactly the buttons of `pressed` set
Buttons(pressed) == [n \in ButtonNames |-> n \in pressed]

ButtonSamples ==
    {Buttons({}), Buttons({"a"}), Buttons({"b"}), Buttons({"x"}), Buttons({"y"}),
     Buttons({"lb"}), Buttons({"rb"}), Buttons(ButtonNames)}

\* xbox_controller_state_t values handed to mixer_process
XboxStates ==
    [ connected : BOOLEAN,
      left_stick_x : SteerSamples,
      left_stick_y : {0},
      right_stick_x : {0},
      right_stick_y : {0},
      left_trigger : TriggerSamples,
      right_trigger : TriggerSamples,
      buttons : ButtonSamples ]

\* MIXER_CONFIG_DEFAULT() with every throttle mode and either value of the invert flags
DefaultFamily ==
    { [MIXER_CONFIG_DEFAULT EXCEPT !.throttle_mode = m,
                                   !.steering_invert = si,
                                   !.throttle_invert = ti] :
        m \in {MIX_MODE_SEPARATE, MIX_MODE_COMBINED, MIX_MODE_THROTTLE_ONLY},
        si \in BOOLEAN, ti \in BOOLEAN }

\* a configuration that differs from the default in endpoints, deadband and channels
AltConfig ==
    [MIXER_CONFIG_DEFAULT EXCEPT !.deadband = [steering |-> 0, throttle |-> 0],
                                 !.steering_endpoint_left = 100,
                                 !.steering_endpoint_right = 100,
                                 !.throttle_endpoint = 100,
                                 !.brake_endpoint = 100,
                                 !.arm_channel = 11,
                                 !.paddle_left_channel = 12,
                                 !.paddle_right_channel = 13]

MixerConfigs == DefaultFamily \cup {AltConfig}

-----------------------------------------------------------------------------
(* xbox_receiver.h, xbox_receiver.c: report parser                         *)

XBOX_SLOT_1 == 0
XBOX_SLOT_MAX == 4

Slots == 0 .. (XBOX_SLOT_MAX - 1)

\* a zeroed xbox_controller_state_t (memset in xbox_receiver_init)
ZeroState ==
    [connected |-> FALSE, left_stick_x |-> 0, left_stick_y |-> 0,
     right_stick_x |-> 0, right_stick_y |-> 0, left_trigger |-> 0,
     right_trigger |-> 0, buttons |-> Buttons({})]

\* data[i] of a report held as a sequence
Byte(data, i) == data[i + 1]

\* the left_stick_x that parse_controller_report derives from bytes 10-11
WheelAxis(data) ==
    LET wheel_raw == BitOr(Byte(data, 10), Shl(Byte(data, 11), 8))
        wheel_signed == ToInt16(wheel_raw - 32768)
    IN IF wheel_signed >= 0 THEN ToInt16(32767 - wheel_signed)
                            ELSE ToInt16(-32767 - wheel_signed)

\* the button flags parse_controller_report assigns from bytes 6-7; left_stick,
\* right_stick and guide are not assigned and keep their previous value
DecodeButtons(old, data) ==
    LET buttons == BitOr(Byte(data, 6), Shl(Byte(data, 7), 8))
        bit(mask) == BitAnd(buttons, mask) # 0
    IN [old EXCEPT !.a = bit(4096), !.b = bit(8192), !.x = bit(16384), !.y = bit(32768),
                   !.lb = bit(256), !.rb = bit(512), !.back = bit(32), !.start = bit(16),
                   !.dpad_up = bit(1), !.dpad_down = bit(2), !.dpad_left = bit(4),
                   !.dpad_right = bit(8)]

\* DecodeInput with the two trigger bytes exchanged
DecodeInput_swapped(old, data) ==
    [old EXCEPT !.connected = TRUE,
                !.left_stick_x = WheelAxis(data),
                !.buttons = DecodeButtons(old.buttons, data),
                !.left_trigger = Byte(data, 9),
                !.right_trigger = Byte(data, 8),
                !.left_stick_y = 0, !.right_stick_x = 0, !.right_stick_y = 0]

\* the slot state after an accepted input report
DecodeInput(old, data) ==
    [old EXCEPT !.connected = TRUE,
                !.left_stick_x = WheelAxis(data),
                !.buttons = DecodeButtons(old.buttons, data),
                !.left_trigger = Byte(data, 8),
                !.right_trigger = Byte(data, 9),
                !.left_stick_y = 0, !.right_stick_x = 0, !.right_stick_y = 0]

\* ReportKind without the test of data[1]
ReportKind_noidle(data) ==
    IF Len(data) = 2 /\ Byte(data, 0) = 8 THEN "notify"
    ELSE IF Len(data) < 12 THEN "short"
    ELSE IF Byte(data, 0) # 0 \/ (Byte(data, 3) # 240 /\ Byte(data, 3) # 128) THEN "skip"
    ELSE "input"

\* which branch of parse_controller_report a report takes
ReportKind(data) ==
    IF Len(data) = 2 /\ Byte(data, 0) = 8 THEN "notify"
    ELSE IF Len(data) < 12 THEN "short"
    ELSE IF Byte(data, 0) # 0 \/ (Byte(data, 3) # 240 /\ Byte(data, 3) # 128) THEN "skip"
    ELSE IF Byte(data, 1) # 1 THEN "idle"
    ELSE "input"

\* parse_controller_report taking every 2-byte report for a notification
parse_controller_report_anypair(states, slot, data, lock_ok) ==
    IF Len(data) = 2
    THEN [states |-> states, cbs |-> <<>>, led |-> TRUE]
    ELSE IF ReportKind(data) = "input" /\ lock_ok
    THEN LET new == DecodeInput(states[slot], data)
         IN [states |-> [states EXCEPT ![slot] = new],
             cbs |-> <<[slot |-> slot, state |-> new]>>, led |-> FALSE]
    ELSE [states |-> states, cbs |-> <<>>, led |-> FALSE]

\* parse_controller_report(slot, data, len): the slot states afterwards, the
\* callbacks invoked (in order) and whether send_player_led(slot) was called;
\* lock_ok tells whether xSemaphoreTake(s_state_mutex, 10 ms) succeeds
parse_controller_report(states, slot, data, lock_ok) ==
    IF ReportKind(data) = "notify"
    THEN [states |-> states, cbs |-> <<>>, led |-> TRUE]
    ELSE IF ReportKind(data) = "input" /\ lock_ok
    THEN LET new == DecodeInput(states[slot], data)
         IN [states |-> [states EXCEPT ![slot] = new],
             cbs |-> <<[slot |-> slot, state |-> new]>>, led |-> FALSE]
    ELSE [states |-> states, cbs |-> <<>>, led |-> FALSE]

\* the loop of close_device handing the callback the slot as it was before
\* connected was cleared
RECURSIVE MarkDisconnected_before(_, _)
MarkDisconnected_before(states, i) ==
    IF i = XBOX_SLOT_MAX THEN <<>>
    ELSE IF states[i].connected
         THEN <<[slot |-> i, state |-> states[i]]>> \o MarkDisconnected_before(states, i + 1)
         ELSE MarkDisconnected_before(states, i + 1)

\* the "mark all controllers disconnected" loop of close_device from slot i on:
\* the callbacks it invokes
RECURSIVE MarkDisconnected(_, _)
MarkDisconnected(states, i) ==
    IF i = XBOX_SLOT_MAX THEN <<>>
    ELSE IF states[i].connected
         THEN <<[slot |-> i, state |-> [states[i] EXCEPT !.connected = FALSE]]>>
              \o MarkDisconnected(states, i + 1)
         ELSE MarkDisconnected(states, i + 1)

\* a 29-byte report of the wheel
MkReport(ind, hdr, blo, bhi, lt, rt, wlo, whi) ==
    <<0, ind, 0, hdr, 0, 2, blo, bhi, lt, rt, wlo, whi>> \o [i \in 1 .. 17 |-> 0]

Notify00 == <<8, 0>>
Notify80 == <<8, 128>>
\* full throttle, button A, wheel word 0x8000
InputA == MkReport(1, 240, 0, 16, 0, 255, 0, 128)
\* brake, no button, wheel word 0x0000, header 0x80
InputB == MkReport(1, 128, 0, 0, 255, 0, 0, 0)

\* the payloads the receiver delivers on its IN endpoint in this model
Reports ==
    { Notify00, Notify80, InputA, InputB,
      MkReport(0, 240, 0, 0, 0, 0, 0, 0),   \* keepalive
      MkReport(1, 0, 0, 0, 0, 0, 0, 0),     \* not an input header
      <<0, 1, 0>> }                         \* too short

NoResult == [status |-> "NONE", data |-> <<>>]
GetIdle == [fn |-> "idle"]
NoRead == [result |-> "none"]
NoLed == [open |-> "none", cb |-> "none"]
NoHandler == [ev |-> "none"]

\* state after xbox_receiver_init, before any device arrives
RecvInit ==
    /\ s_controller_state = [i \in Slots |-> ZeroState]
    /\ s_state_mutex = "free"
    /\ s_receiver_connected = FALSE
    /\ s_opening_device = FALSE
    /\ s_device_gone = FALSE
    /\ s_device_hdl = FALSE
    /\ s_in_xfer = "null"
    /\ in_result = NoResult
    /\ s_out_xfer = "null"
    /\ s_out_pending = FALSE
    /\ s_ep_in_addr = 0
    /\ s_ep_out_addr = 0
    /\ s_pending_dev_addr = 0
    /\ s_device_addr = 0
    /\ s_device_sem = 0
    /\ open_pc = "idle"
    /\ open_i = 0
    /\ bus_present = FALSE
    /\ client_events = <<>>
    /\ get_pc = GetIdle
    /\ get_last = NoRead
    /\ led_pc = NoLed
    /\ rx_last = NoHandler

-----------------------------------------------------------------------------
(* crsf.c: frame codec                                                     *)

CRSF_SYNC_BYTE == 200
CRSF_FRAMETYPE_RC_CHANNELS_PACKED == 22

\* CRC8 lookup table (polynomial 0xD5); crc8_lut[i] of the source is crc8_lut[i + 1]
crc8_lut ==
    << 0, 213, 127, 170, 254,  43, 129,  84,  41, 252,  86, 131, 215,   2, 168, 125,
        82, 135,  45, 248, 172, 121, 211,   6, 123, 174,   4, 209, 133,  80, 250,  47,
       164, 113, 219,  14,  90, 143,  37, 240, 141,  88, 242,  39, 115, 166,  12, 217,
       246,  35, 137,  92,   8, 221, 119, 162, 223,  10, 160, 117,  33, 244,  94, 139,
       157,  72, 226,  55,  99, 182,  28, 201, 180,  97, 203,  30,  74, 159,  53, 224,
       207,  26, 176, 101,  49, 228,  78, 155, 230,  51, 153,  76,  24, 205, 103, 178,
        57, 236,  70, 147, 199,  18, 184, 109,  16, 197, 111, 186, 238,  59, 145,  68,
       107, 190,  20, 193, 149,  64, 234,  63,  66, 151,  61, 232, 188, 105, 195,  22,
       239,  58, 144,  69,  17, 196, 110, 187, 198,  19, 185, 108,  56, 237,  71, 146,
       189, 104, 194,  23,  67, 150,  60, 233, 148,  65, 235,  62, 106, 191,  21, 192,
        75, 158,  52, 225, 181,  96, 202,  31,  98, 183,  29, 200, 156,  73, 227,  54,
        25, 204, 102, 179, 231,  50, 152,  77,  48, 229,  79, 154, 206,  27, 177, 100,
       114, 167,  13, 216, 140,  89, 243,  38,  91, 142,  36, 241, 165, 112, 218,  15,
        32, 245,  95, 138, 222,  11, 161, 116,   9, 220, 118, 163, 247,  34, 136,  93,
       214,   3, 169, 124,  40, 253,  87, 130, 255,  42, 128,  85,   1, 212, 126, 171,
       132,  81, 251,  46, 122, 175,   5, 208, 173, 120, 210,   7,  83, 134,  44, 249 >>

\* crc8(data, len) over data[from .. from + len - 1], starting from crc
RECURSIVE Crc8From(_, _, _, _)
Crc8From(data, from, len, crc) ==
    IF len = 0 THEN crc
    ELSE CHOOSE r \in { Crc8From(data, from + 1, len - 1, next) :
                           next \in {crc8_lut[BitXor(crc, data[from]) + 1]} } : TRUE

crc8(data, from, len) == Crc8From(data, from, len, 0)

\* pack_channels with ch[1] shifted by 2 instead of 3 in byte 1
pack_channels_shift(ch) ==
    [k \in 0 .. 21 |-> ToUint8(
        CASE k = 0 -> BitAnd(ch[0], 255)
          [] k = 1 -> BitOr(Shr(ch[0], 8), Shl(BitAnd(ch[1], 31), 2))
          [] k = 2 -> BitOr(Shr(ch[1], 5), Shl(BitAnd(ch[2], 3), 6))
          [] k = 3 -> BitAnd(Shr(ch[2], 2), 255)
          [] k = 4 -> BitOr(Shr(ch[2], 10), Shl(BitAnd(ch[3], 127), 1))
          [] k = 5 -> BitOr(Shr(ch[3], 7), Shl(BitAnd(ch[4], 15), 4))
          [] k = 6 -> BitOr(Shr(ch[4], 4), Shl(BitAnd(ch[5], 1), 7))
          [] k = 7 -> BitAnd(Shr(ch[5], 1), 255)
          [] k = 8 -> BitOr(Shr(ch[5], 9), Shl(BitAnd(ch[6], 63), 2))
          [] k = 9 -> BitOr(Shr(ch[6], 6), Shl(BitAnd(ch[7], 7), 5))
          [] k = 10 -> BitAnd(Shr(ch[7], 3), 255)
          [] k = 11 -> BitAnd(ch[8], 255)
          [] k = 12 -> BitOr(Shr(ch[8], 8), Shl(BitAnd(ch[9], 31), 3))
          [] k = 13 -> BitOr(Shr(ch[9], 5), Shl(BitAnd(ch[10], 3), 6))
          [] k = 14 -> BitAnd(Shr(ch[10], 2), 255)
          [] k = 15 -> BitOr(Shr(ch[10], 10), Shl(BitAnd(ch[11], 127), 1))
          [] k = 16 -> BitOr(Shr(ch[11], 7), Shl(BitAnd(ch[12], 15), 4))
          [] k = 17 -> BitOr(Shr(ch[12], 4), Shl(BitAnd(ch[13], 1), 7))
          [] k = 18 -> BitAnd(Shr(ch[13], 1), 255)
          [] k = 19 -> BitOr(Shr(ch[13], 9), Shl(BitAnd(ch[14], 63), 2))
          [] k = 20 -> BitOr(Shr(ch[14], 6), Shl(BitAnd(ch[15], 7), 5))
          [] k = 21 -> BitAnd(Shr(ch[15], 3), 255))]

pack_channels(ch) ==
    [k \in 0 .. 21 |-> ToUint8(
        CASE k = 0 -> BitAnd(ch[0], 255)
          [] k = 1 -> BitOr(Shr(ch[0], 8), Shl(BitAnd(ch[1], 31), 3))
          [] k = 2 -> BitOr(Shr(ch[1], 5), Shl(BitAnd(ch[2], 3), 6))
          [] k = 3 -> BitAnd(Shr(ch[2], 2), 255)
          [] k = 4 -> BitOr(Shr(ch[2], 10), Shl(BitAnd(ch[3], 127), 1))
          [] k = 5 -> BitOr(Shr(ch[3], 7), Shl(BitAnd(ch[4], 15), 4))
          [] k = 6 -> BitOr(Shr(ch[4], 4), Shl(BitAnd(ch[5], 1), 7))
          [] k = 7 -> BitAnd(Shr(ch[5], 1), 255)
          [] k = 8 -> BitOr(Shr(ch[5], 9), Shl(BitAnd(ch[6], 63), 2))
          [] k = 9 -> BitOr(Shr(ch[6], 6), Shl(BitAnd(ch[7], 7), 5))
          [] k = 10 -> BitAnd(Shr(ch[7], 3), 255)
          [] k = 11 -> BitAnd(ch[8], 255)
          [] k = 12 -> BitOr(Shr(ch[8], 8), Shl(BitAnd(ch[9], 31), 3))
          [] k = 13 -> BitOr(Shr(ch[9], 5), Shl(BitAnd(ch[10], 3), 6))
          [] k = 14 -> BitAnd(Shr(ch[10], 2), 255)
          [] k = 15 -> BitOr(Shr(ch[10], 10), Shl(BitAnd(ch[11], 127), 1))
          [] k = 16 -> BitOr(Shr(ch[11], 7), Shl(BitAnd(ch[12], 15), 4))
          [] k = 17 -> BitOr(Shr(ch[12], 4), Shl(BitAnd(ch[13], 1), 7))
          [] k = 18 -> BitAnd(Shr(ch[13], 1), 255)
          [] k = 19 -> BitOr(Shr(ch[13], 9), Shl(BitAnd(ch[14], 63), 2))
          [] k = 20 -> BitOr(Shr(ch[14], 6), Shl(BitAnd(ch[15], 7), 5))
          [] k = 21 -> BitAnd(Shr(ch[15], 3), 255))]

unpack_channels(packed) ==
    [i \in Channels |-> ToUint16(
        CASE i = 0 -> BitAnd(BitOr(packed[0], Shl(packed[1], 8)), 2047)
          [] i = 1 -> BitAnd(BitOr(Shr(packed[1], 3), Shl(packed[2], 5)), 2047)
          [] i = 2 -> BitAnd(BitOr(BitOr(Shr(packed[2], 6), Shl(packed[3], 2)), Shl(packed[4], 10)), 2047)
          [] i = 3 -> BitAnd(BitOr(Shr(packed[4], 1), Shl(packed[5], 7)), 2047)
          [] i = 4 -> BitAnd(BitOr(Shr(packed[5], 4), Shl(packed[6], 4)), 2047)
          [] i = 5 -> BitAnd(BitOr(BitOr(Shr(packed[6], 7), Shl(packed[7], 1)), Shl(packed[8], 9)), 2047)
          [] i = 6 -> BitAnd(BitOr(Shr(packed[8], 2), Shl(packed[9], 6)), 2047)
          [] i = 7 -> BitAnd(BitOr(Shr(packed[9], 5), Shl(packed[10], 3)), 2047)
          [] i = 8 -> BitAnd(BitOr(packed[11], Shl(packed[12], 8)), 2047)
          [] i = 9 -> BitAnd(BitOr(Shr(packed[12], 3), Shl(packed[13], 5)), 2047)
          [] i = 10 -> BitAnd(BitOr(BitOr(Shr(packed[13], 6), Shl(packed[14], 2)), Shl(packed[15], 10)), 2047)
          [] i = 11 -> BitAnd(BitOr(Shr(packed[15], 1), Shl(packed[16], 7)), 2047)
          [] i = 12 -> BitAnd(BitOr(Shr(packed[16], 4), Shl(packed[17], 4)), 2047)
          [] i = 13 -> BitAnd(BitOr(BitOr(Shr(packed[17], 7), Shl(packed[18], 1)), Shl(packed[19], 9)), 2047)
          [] i = 14 -> BitAnd(BitOr(Shr(packed[19], 2), Shl(packed[20], 6)), 2047)
          [] i = 15 -> BitAnd(BitOr(Shr(packed[20], 5), Shl(packed[21], 3)), 2047))]

\* send_channels_frame with the CRC taken over bytes 0..24
BuildFrame_crc_all(channels) ==
    LET packed == pack_channels(channels)
        head == [k \in 0 .. 24 |-> IF k = 0 THEN CRSF_SYNC_BYTE
                                   ELSE IF k = 1 THEN 24
                                   ELSE IF k = 2 THEN CRSF_FRAMETYPE_RC_CHANNELS_PACKED
                                   ELSE packed[k - 3]]
    IN [k \in 0 .. 25 |-> IF k = 25 THEN crc8(head, 0, 25) ELSE head[k]]

\* the 26 bytes send_channels_frame builds from `channels` and writes to the UART
BuildFrame(channels) ==
    LET packed == pack_channels(channels)
        head == [k \in 0 .. 24 |-> IF k = 0 THEN CRSF_SYNC_BYTE
                                   ELSE IF k = 1 THEN 24
                                   ELSE IF k = 2 THEN CRSF_FRAMETYPE_RC_CHANNELS_PACKED
                                   ELSE packed[k - 3]]
    IN [k \in 0 .. 25 |-> IF k = 25 THEN crc8(head, 2, 23) ELSE head[k]]

\* the channel vector a frame carries (unpack_channels of its payload, bytes 3..24)
FrameVector(frame) == unpack_channels([k \in 0 .. 21 |-> frame[k + 3]])

-----------------------------------------------------------------------------
(* crsf.c: channel store, API and transmitter                              *)

\* send_channels_frame substituting the failsafe vector on every tick
FrameChannelsFailsafe(locked) == s_failsafe_channels

\* send_channels_frame without the all-center fallback
FrameChannelsNoFallback(locked) == s_channels

\* the vector send_channels_frame packs: the stored one if the mutex was taken
\* within 5 ms, all-center otherwise
FrameChannels(locked) == IF locked THEN s_channels ELSE AllMid

\* failsafe_timeout_ms of the watchdog test's crsf_config_t
FAILSAFE_TIMEOUT == 250

\* the watchdog condition of the design: an update was recorded and
\* current_tick - last_update_tick >= timeout_duration
WatchdogStale == ever_updated /\ tick - last_update_tick >= FAILSAFE_TIMEOUT

NoLog == [sent |-> FALSE]

ApiIdle == [fn |-> "idle"]

NoCall == [outcome |-> "none"]

\* crsf_set_channel without the clamp
ClampChannel_none(value) == value

\* the clamp of crsf_set_channel
ClampChannel(value) ==
    IF value < CRSF_CHANNEL_MIN THEN CRSF_CHANNEL_MIN
    ELSE IF value > CRSF_CHANNEL_MAX THEN CRSF_CHANNEL_MAX
    ELSE value

\* the vector mixer_process is documented to produce for a disconnected controller
SafeVector == [i \in Channels |-> IF i = RC_CH_THROTTLE THEN CRSF_CHANNEL_MIN
                                                        ELSE CRSF_CHANNEL_MID]

\* main.c: g_channels and its mutex after app_main's initialisation
CbIdle == [at |-> "idle"]

MainInit ==
    /\ g_channels = [AllMid EXCEPT ![RC_CH_THROTTLE] = CRSF_CHANNEL_MIN]
    /\ g_channels_mutex = "free"
    /\ cb_pc = CbIdle
    /\ fwd_pc = "wait"
    /\ cb_disc = FALSE

\* state after crsf_init
CrsfInit ==
    /\ s_channels = AllMid
    /\ s_failsafe_channels = [AllMid EXCEPT ![2] = CRSF_CHANNEL_MIN]
    /\ s_channels_mutex = "free"
    /\ s_running = TRUE
    /\ uart = NoVec
    /\ tx_pc = "wait"
    /\ api_pc = ApiIdle
    /\ api_last = NoCall

ClockInit ==
    /\ tick = 0
    /\ ever_updated = FALSE
    /\ last_update_tick = 0
    /\ upd_stale = FALSE
    /\ upd_sent = FALSE
    /\ upd_vec = NoVec
    /\ tx_log = NoLog

\* uart_write_bytes(frame) at the end of send_channels_frame
WriteFrame(locked) ==
    /\ uart' = BuildFrame(FrameChannels(locked))
    /\ tx_log' = [ sent |-> TRUE, locked |-> locked,
                   ever |-> ever_updated, stale |-> WatchdogStale,
                   aged |-> (tick - last_update_tick >= FAILSAFE_TIMEOUT),
                   live |-> s_channels, failsafe |-> s_failsafe_channels,
                   first |-> ~upd_sent, recov |-> upd_stale, set |-> upd_vec ]
    /\ upd_sent' = TRUE

\* crsf_task, send_channels_frame: xSemaphoreTake(s_channels_mutex, 5 ms) succeeds
TxTake ==
    /\ tx_pc = "wait"
    /\ s_running
    /\ s_channels_mutex = "free"
    /\ s_channels_mutex' = "tx"
    /\ tx_pc' = "locked"
    /\ UNCHANGED <<s_channels, s_failsafe_channels, s_running, uart, api_pc, api_last>>
    /\ UNCHANGED <<clockVars, mixerVars, mainVars, recvVars>>

\* send_channels_frame: memcpy, xSemaphoreGive, pack, crc, uart_write_bytes
TxSend ==
    /\ tx_pc = "locked"
    /\ WriteFrame(TRUE)
    /\ s_channels_mutex' = "free"
    /\ tx_pc' = "wait"
    /\ UNCHANGED <<s_channels, s_failsafe_channels, s_running, api_pc, api_last>>
    /\ UNCHANGED <<tick, ever_updated, last_update_tick, upd_stale, upd_vec, mixerVars, mainVars, recvVars>>

\* send_channels_frame waiting for the mutex with portMAX_DELAY: while the
\* mutex is held the tick has no step to take
TxTimeout_unbounded == FALSE /\ UNCHANGED vars

\* send_channels_frame: the take times out (the mutex stayed with another task
\* for 5 ms): all-center defaults are packed and sent
TxTimeout ==
    /\ tx_pc = "wait"
    /\ s_running
    /\ s_channels_mutex # "free"
    /\ WriteFrame(FALSE)
    /\ UNCHANGED <<s_channels, s_failsafe_channels, s_channels_mutex, s_running,
                   tx_pc, api_pc, api_last>>
    /\ UNCHANGED <<tick, ever_updated, last_update_tick, upd_stale, upd_vec, mixerVars, mainVars, recvVars>>

\* the memcpy of crsf_set_channels cut off after the first eight channels
SetChannelsStore_half(channels) ==
    /\ s_channels' = [i \in Channels |-> IF i < 8 THEN channels[i] ELSE s_channels[i]]
    /\ ever_updated' = TRUE
    /\ last_update_tick' = tick
    /\ upd_stale' = WatchdogStale
    /\ upd_sent' = FALSE
    /\ upd_vec' = channels

\* memcpy(&s_channels, channels) inside crsf_set_channels, with the mutex held
SetChannelsStore(channels) ==
    /\ s_channels' = channels
    /\ ever_updated' = TRUE
    /\ last_update_tick' = tick
    /\ upd_stale' = WatchdogStale
    /\ upd_sent' = FALSE
    /\ upd_vec' = channels

\* the test vectors of the watchdog test: `live` (some throttle, armed) ...
LiveA == [AllMid EXCEPT ![2] = 1200, ![4] = CRSF_CHANNEL_MAX]
LiveB == [AllMid EXCEPT ![0] = CRSF_CHANNEL_MIN, ![2] = CRSF_CHANNEL_MAX]
\* ... and `failsafe` (all center, arm channel low)
TestFailsafe == [AllMid EXCEPT ![4] = CRSF_CHANNEL_MIN]

ApiCalls ==
    {[fn |-> "crsf_set_channels", arg |-> v] : v \in {LiveA, LiveB}}
    \cup {[fn |-> "crsf_set_failsafe", arg |-> TestFailsafe]}

\* crsf_set_channels / crsf_set_failsafe: xSemaphoreTake(s_channels_mutex, 10 ms) succeeds
ApiTake(call) ==
    /\ api_pc = ApiIdle
    /\ s_channels_mutex = "free"
    /\ s_channels_mutex' = "api"
    /\ api_pc' = call
    /\ UNCHANGED <<s_channels, s_failsafe_channels, s_running, uart, tx_pc, api_last>>
    /\ UNCHANGED <<clockVars, mixerVars, mainVars, recvVars>>

\* the take times out: the call returns without storing anything
ApiTimeout(call) ==
    /\ api_pc = ApiIdle
    /\ s_channels_mutex # "free"
    /\ api_last' = IF call.fn = "crsf_set_channel"
                   THEN [call |-> call, before |-> s_channels, after |-> s_channels,
                         outcome |-> "timeout"]
                   ELSE api_last
    /\ UNCHANGED <<s_channels, s_failsafe_channels, s_channels_mutex, s_running, uart,
                   tx_pc, api_pc>>
    /\ UNCHANGED <<clockVars, mixerVars, mainVars, recvVars>>

\* memcpy and xSemaphoreGive of the call that holds the mutex
ApiDone ==
    /\ api_pc # ApiIdle
    /\ IF api_pc.fn = "crsf_set_channels"
       THEN /\ SetChannelsStore(api_pc.arg)
            /\ UNCHANGED <<s_failsafe_channels, api_last>>
       ELSE IF api_pc.fn = "crsf_set_channel"
       THEN LET stored == [s_channels EXCEPT ![api_pc.channel] = ClampChannel(api_pc.value)]
            IN /\ SetChannelsStore(stored)
               /\ api_last' = [call |-> api_pc, before |-> s_channels, after |-> stored,
                               outcome |-> "stored"]
               /\ UNCHANGED s_failsafe_channels
       ELSE /\ s_failsafe_channels' = api_pc.arg
            /\ UNCHANGED <<s_channels, ever_updated, last_update_tick, upd_stale, upd_sent,
                           upd_vec, api_last>>
    /\ s_channels_mutex' = "free"
    /\ api_pc' = ApiIdle
    /\ UNCHANGED <<s_running, uart, tx_pc, tick, tx_log, mixerVars, mainVars, recvVars>>

\* the number of clock steps the model takes
MaxTickSteps == 4

\* the clock advances by one tick or by LongWait ticks
LongWait == FAILSAFE_TIMEOUT - 2

Tick(d) ==
    /\ (tick \div LongWait) + (tick % LongWait) < MaxTickSteps
    /\ tick' = tick + d
    /\ UNCHANGED <<crsfVars, ever_updated, last_update_tick, upd_stale, upd_sent, upd_vec,
                   tx_log, mixerVars, mainVars, recvVars>>

InitCrsf ==
    /\ CrsfInit
    /\ ClockInit
    /\ MainInit
    /\ RecvInit
    /\ s_config = MIXER_CONFIG_DEFAULT
    /\ mx_state = [connected |-> FALSE, left_stick_x |-> 0, left_stick_y |-> 0,
                   right_stick_x |-> 0, right_stick_y |-> 0, left_trigger |-> 0,
                   right_trigger |-> 0, buttons |-> Buttons({})]
    /\ mx_out = NoVec
    /\ mx_pc = "ready"
    /\ mx_seen = {}

NextCrsf ==
    \/ TxTake
    \/ TxSend
    \/ TxTimeout
    \/ \E call \in ApiCalls : ApiTake(call)
    \/ \E call \in ApiCalls : ApiTimeout(call)
    \/ ApiDone
    \/ \E d \in {1, LongWait} : Tick(d)

SpecCrsf == InitCrsf /\ [][NextCrsf]_vars

\* C1: once an update has been accepted and FAILSAFE_TIMEOUT ticks or more have
\* passed without another, every frame sent carries the configured failsafe
\* vector.
StaleFrameIsFailsafe ==
    (tx_log.sent /\ tx_log.stale) => FrameVector(uart) = tx_log.failsafe

\* C5: with the last accepted update at tick T, a frame sent at T + 249 carries
\* the live vector and a frame sent at T + 250 carries the failsafe vector.
WatchdogBoundary ==
    [][ /\ (TxSend /\ ever_updated /\ tick - last_update_tick = FAILSAFE_TIMEOUT - 1)
            => FrameVector(uart') = s_channels
        /\ ((TxSend \/ TxTimeout) /\ ever_updated
                /\ tick - last_update_tick = FAILSAFE_TIMEOUT)
            => FrameVector(uart') = s_failsafe_channels ]_vars

\* C6: a frame sent before the first channel update is never a failsafe frame,
\* however late it is sent: it carries the stored vector (or the all-center
\* fallback when the mutex was not obtained) and the watchdog condition is false.
ColdStartNoFailsafe ==
    (tx_log.sent /\ ~tx_log.ever) =>
        /\ ~tx_log.stale
        /\ FrameVector(uart) = (IF tx_log.locked THEN tx_log.live ELSE AllMid)

ColdStartWitness ==
    /\ tx_log.sent
    /\ ~tx_log.ever
    /\ tx_log.aged
    /\ tx_log.locked
    /\ tx_log.failsafe = TestFailsafe
    /\ FrameVector(uart) = AllMid
    /\ ~tx_log.first

\* the first frame after an update that ended a stale period, sent before the
\* timeout has elapsed again
RecoveryCase == tx_log.sent /\ tx_log.first /\ tx_log.recov /\ tx_log.ever /\ ~tx_log.stale

\* C7 as stated: that frame carries the newly set live vector.
RecoveryFrameIsLive ==
    RecoveryCase => FrameVector(uart) = tx_log.set

\* C7 amended: that frame carries the newly set live vector when the transmitter
\* obtained the mutex, and the all-center fallback when its take timed out.
RecoveryFrameLiveOrCenter ==
    RecoveryCase => FrameVector(uart) = (IF tx_log.locked THEN tx_log.set ELSE AllMid)

RecoveryWitness ==
    /\ RecoveryCase
    /\ tx_log.locked
    /\ tx_log.set = LiveB
    /\ FrameVector(uart) = LiveB
    /\ tx_log.failsafe = TestFailsafe

(***************************************************************************)
(* Spec: main.c composed with crsf.c.  xbox_state_callback writes          *)
(* g_channels, crsf_send_task forwards g_channels into the CRSF store, and *)
(* crsf_task transmits the store.                                          *)
(***************************************************************************)

\* the snapshots the receiver hands to the callback in this specification
CallbackStates ==
    { [connected |-> c, left_stick_x |-> 0, left_stick_y |-> 0,
       right_stick_x |-> 0, right_stick_y |-> 0, left_trigger |-> 0,
       right_trigger |-> rt, buttons |-> Buttons({})]
        : c \in BOOLEAN, rt \in {0, 255} }

\* xbox_state_callback: slot != XBOX_SLOT_1, return
CbOtherSlot(slot, state) ==
    /\ cb_pc = CbIdle
    /\ slot # XBOX_SLOT_1
    /\ UNCHANGED <<crsfVars, clockVars, mixerVars, mainVars, recvVars>>

\* xbox_state_callback, slot 0: the snapshot is disconnected (the safe vector
\* is to be stored) or connected (the mixer's output is to be stored), and
\* xSemaphoreTake(g_channels_mutex, 10 ms) succeeds
CbTake(slot, state) ==
    /\ cb_pc = CbIdle
    /\ slot = XBOX_SLOT_1
    /\ g_channels_mutex = "free"
    /\ g_channels_mutex' = "cb"
    /\ cb_pc' = [at |-> "store",
                 vec |-> IF ~state.connected
                         THEN [AllMid EXCEPT ![RC_CH_THROTTLE] = CRSF_CHANNEL_MIN]
                         ELSE mixer_process(state, s_config)]
    /\ cb_disc' = ~state.connected
    /\ UNCHANGED <<g_channels, fwd_pc>>
    /\ UNCHANGED <<crsfVars, clockVars, mixerVars, recvVars>>

\* xbox_state_callback, slot 0: the take times out and the callback returns
\* without writing g_channels
CbTimeout(slot, state) ==
    /\ cb_pc = CbIdle
    /\ slot = XBOX_SLOT_1
    /\ g_channels_mutex # "free"
    /\ cb_disc' = ~state.connected
    /\ UNCHANGED <<g_channels, g_channels_mutex, cb_pc, fwd_pc>>
    /\ UNCHANGED <<crsfVars, clockVars, mixerVars, recvVars>>

\* xbox_state_callback: the store into g_channels and xSemaphoreGive
CbStore ==
    /\ cb_pc # CbIdle
    /\ g_channels' = cb_pc.vec
    /\ g_channels_mutex' = "free"
    /\ cb_pc' = CbIdle
    /\ UNCHANGED <<fwd_pc, cb_disc>>
    /\ UNCHANGED <<crsfVars, clockVars, mixerVars, recvVars>>

\* crsf_send_task: xSemaphoreTake(g_channels_mutex, 5 ms) succeeds
FwdTakeG ==
    /\ fwd_pc = "wait"
    /\ g_channels_mutex = "free"
    /\ g_channels_mutex' = "fwd"
    /\ fwd_pc' = "has_g"
    /\ UNCHANGED <<g_channels, cb_pc, cb_disc>>
    /\ UNCHANGED <<crsfVars, clockVars, mixerVars, recvVars>>

\* crsf_send_task: the take times out, this cycle forwards nothing
FwdTimeoutG ==
    /\ fwd_pc = "wait"
    /\ g_channels_mutex # "free"
    /\ UNCHANGED <<crsfVars, clockVars, mixerVars, mainVars, recvVars>>

\* crsf_set_channels(&g_channels): xSemaphoreTake(s_channels_mutex, 10 ms) succeeds
FwdTakeS ==
    /\ fwd_pc = "has_g"
    /\ s_channels_mutex = "free"
    /\ s_channels_mutex' = "fwd"
    /\ fwd_pc' = "has_gs"
    /\ UNCHANGED <<s_channels, s_failsafe_channels, s_running, uart, tx_pc, api_pc,
                   api_last>>
    /\ UNCHANGED <<g_channels, g_channels_mutex, cb_pc, cb_disc>>
    /\ UNCHANGED <<clockVars, mixerVars, recvVars>>

\* crsf_set_channels(&g_channels): the take times out, nothing is stored;
\* crsf_send_task gives g_channels_mutex back
FwdTimeoutS ==
    /\ fwd_pc = "has_g"
    /\ s_channels_mutex # "free"
    /\ g_channels_mutex' = "free"
    /\ fwd_pc' = "wait"
    /\ UNCHANGED <<g_channels, cb_pc, cb_disc>>
    /\ UNCHANGED <<crsfVars, clockVars, mixerVars, recvVars>>

\* crsf_set_channels(&g_channels): memcpy and give; crsf_send_task gives
\* g_channels_mutex back
FwdStore ==
    /\ fwd_pc = "has_gs"
    /\ SetChannelsStore(g_channels)
    /\ s_channels_mutex' = "free"
    /\ g_channels_mutex' = "free"
    /\ fwd_pc' = "wait"
    /\ UNCHANGED <<s_failsafe_channels, s_running, uart, tx_pc, api_pc, api_last>>
    /\ UNCHANGED <<g_channels, cb_pc, cb_disc>>
    /\ UNCHANGED <<tick, tx_log, mixerVars, recvVars>>

Init ==
    /\ CrsfInit
    /\ ClockInit
    /\ MainInit
    /\ RecvInit
    /\ s_config = MIXER_CONFIG_DEFAULT
    /\ mx_state = [connected |-> FALSE, left_stick_x |-> 0, left_stick_y |-> 0,
                   right_stick_x |-> 0, right_stick_y |-> 0, left_trigger |-> 0,
                   right_trigger |-> 0, buttons |-> Buttons({})]
    /\ mx_out = NoVec
    /\ mx_pc = "ready"
    /\ mx_seen = {}

Next ==
    \/ \E slot \in 0 .. XBOX_SLOT_MAX - 1, state \in CallbackStates :
            CbOtherSlot(slot, state)
    \/ \E slot \in 0 .. XBOX_SLOT_MAX - 1, state \in CallbackStates :
            CbTake(slot, state)
    \/ \E slot \in 0 .. XBOX_SLOT_MAX - 1, state \in CallbackStates :
            CbTimeout(slot, state)
    \/ CbStore
    \/ FwdTakeG
    \/ FwdTimeoutG
    \/ FwdTakeS
    \/ FwdTimeoutS
    \/ FwdStore
    \/ TxTake
    \/ TxSend
    \/ TxTimeout

Spec == Init /\ [][Next]_vars

\* crsf_task and crsf_send_task are periodic FreeRTOS tasks that loop forever,
\* and a callback that holds g_channels_mutex runs on to its give
FairSpec ==
    /\ Spec
    /\ WF_vars(TxTake \/ TxSend \/ TxTimeout)
    /\ SF_vars(TxTake)
    /\ WF_vars(FwdTakeG \/ FwdTakeS \/ FwdTimeoutS \/ FwdStore)
    /\ SF_vars(FwdTakeG)
    /\ SF_vars(FwdTakeS)
    /\ WF_vars(CbStore)

\* C2: when the last callback for slot 0 reported connected == false, has
\* returned, and no later callback reports input, from some point on every
\* transmitted frame carries throttle CRSF_CHANNEL_MIN and CRSF_CHANNEL_MID on
\* every other channel, lock-wait timeouts included.
DisconnectStopsVehicle ==
    (<>[](cb_disc /\ cb_pc = CbIdle))
        => <>[](tx_log.sent /\ FrameVector(uart) = SafeVector)

-----------------------------------------------------------------------------
(* SpecMixer: mixer_init(config), then one call of mixer_process           *)

InitMixer ==
    /\ s_config \in MixerConfigs
    /\ mx_state \in XboxStates
    /\ mx_out = NoVec
    /\ mx_pc = "ready"
    /\ mx_seen = {}
    /\ CrsfInit
    /\ ClockInit
    /\ MainInit
    /\ RecvInit

MixerProcess ==
    /\ mx_pc = "ready"
    /\ mx_out' = mixer_process(mx_state, s_config)
    /\ mx_pc' = "done"
    /\ UNCHANGED <<s_config, mx_state, mx_seen, crsfVars, clockVars, mainVars, recvVars>>

NextMixer == MixerProcess

SpecMixer == InitMixer /\ [][NextMixer]_vars

\* C8: under the default endpoint/deadband/channel configuration (any throttle
\* mode, any invert flags, expo 0) every one of the 16 elements written by
\* mixer_process lies in [CRSF_CHANNEL_MIN, CRSF_CHANNEL_MAX], for every input.
MixerRangeInvariant ==
    (mx_pc = "done" /\ s_config \in DefaultFamily) =>
        /\ DOMAIN mx_out = Channels
        /\ \A i \in Channels : mx_out[i] \in CRSF_CHANNEL_MIN .. CRSF_CHANNEL_MAX

MixerRangeWitness ==
    /\ mx_pc = "done"
    /\ mx_state.connected
    /\ mx_state.left_stick_x = -32768
    /\ mx_state.right_trigger = 255
    /\ mx_state.buttons.a
    /\ s_config.throttle_mode = MIX_MODE_SEPARATE
    /\ s_config.throttle_invert
    /\ s_config \in DefaultFamily

\* C9: for a disconnected input state the throttle channel and the configured
\* arm channel are both CRSF_CHANNEL_MIN.
MixerDisconnectedArmMin ==
    (mx_pc = "done" /\ ~mx_state.connected) =>
        /\ mx_out[RC_CH_THROTTLE] = CRSF_CHANNEL_MIN
        /\ mx_out[s_config.arm_channel] = CRSF_CHANNEL_MIN

-----------------------------------------------------------------------------
(* SpecRecv: xbox_receiver.c.  The USB client task runs client_event_cb,   *)
(* in_xfer_cb and out_xfer_cb one at a time; device_task runs open_device, *)
(* which the client task can interleave with at every statement boundary   *)
(* kept below; xbox_receiver_get_state runs in a third task.               *)
(***************************************************************************)

otherVars == <<mixerVars, crsfVars, clockVars, mainVars, led_pc>>

\* iterations of the stability wait of open_device
STABILITY_CHECKS == 10

\* capacity used of the client's event queue
MaxEvents == 2

\* send_player_led that never submits the OUT transfer
send_player_led_never(out, hdl, pending, ok) == [out |-> out, pending |-> pending]

\* send_player_led: the OUT transfer and s_out_pending afterwards; ok is the
\* result of usb_host_transfer_submit
send_player_led(out, hdl, pending, ok) ==
    IF out = "null" \/ ~hdl \/ pending THEN [out |-> out, pending |-> pending]
    ELSE IF ok THEN [out |-> "inflight", pending |-> TRUE]
    ELSE [out |-> out, pending |-> FALSE]

\* the receiver is plugged in: the host library queues NEW_DEV
Attach ==
    /\ ~bus_present
    /\ Len(client_events) < MaxEvents
    /\ bus_present' = TRUE
    /\ client_events' = Append(client_events, "NEW_DEV")
    /\ UNCHANGED <<s_controller_state, s_state_mutex, s_receiver_connected,
                   s_opening_device, s_device_gone, s_device_hdl, s_in_xfer, in_result,
                   s_out_xfer, s_out_pending, s_ep_in_addr, s_ep_out_addr,
                   s_pending_dev_addr, s_device_addr, s_device_sem, open_pc, open_i,
                   get_pc, get_last, rx_last>>
    /\ UNCHANGED otherVars

\* the receiver is unplugged: the host library queues DEV_GONE
Detach ==
    /\ bus_present
    /\ Len(client_events) < MaxEvents
    /\ bus_present' = FALSE
    /\ client_events' = Append(client_events, "DEV_GONE")
    /\ UNCHANGED <<s_controller_state, s_state_mutex, s_receiver_connected,
                   s_opening_device, s_device_gone, s_device_hdl, s_in_xfer, in_result,
                   s_out_xfer, s_out_pending, s_ep_in_addr, s_ep_out_addr,
                   s_pending_dev_addr, s_device_addr, s_device_sem, open_pc, open_i,
                   get_pc, get_last, rx_last>>
    /\ UNCHANGED otherVars

\* the submitted IN transfer completes: with a payload while the receiver is
\* there, with NO_DEVICE once it is gone, or with another error
XferComplete(status, data) ==
    /\ s_in_xfer = "inflight"
    /\ \/ status = "COMPLETED" /\ bus_present
       \/ status = "NO_DEVICE" /\ ~bus_present /\ data = <<>>
       \/ status = "ERROR" /\ data = <<>>
    /\ s_in_xfer' = "done"
    /\ in_result' = [status |-> status, data |-> data]
    /\ UNCHANGED <<s_controller_state, s_state_mutex, s_receiver_connected,
                   s_opening_device, s_device_gone, s_device_hdl,
                   s_out_xfer, s_out_pending, s_ep_in_addr, s_ep_out_addr,
                   s_pending_dev_addr, s_device_addr, s_device_sem, open_pc, open_i,
                   bus_present, client_events, get_pc, get_last, rx_last>>
    /\ UNCHANGED otherVars

\* in_xfer_cb(xfer), with parse_controller_report and send_player_led inside it;
\* with `traced` the record of the run also keeps the outcome of the lock wait
\* and the OUT transfer before and after
InXferCb(led_ok, sub_ok, traced) ==
    /\ s_in_xfer = "done"
    /\ LET parsed == IF in_result.status = "COMPLETED" /\ Len(in_result.data) > 0
                     THEN parse_controller_report(s_controller_state, XBOX_SLOT_1,
                                                  in_result.data, s_state_mutex = "free")
                     ELSE [states |-> s_controller_state, cbs |-> <<>>, led |-> FALSE]
           led == IF parsed.led
                  THEN send_player_led(s_out_xfer, s_device_hdl, s_out_pending, led_ok)
                  ELSE [out |-> s_out_xfer, pending |-> s_out_pending]
           resubmit == /\ in_result.status # "NO_DEVICE"
                       /\ s_receiver_connected /\ s_device_hdl /\ ~s_device_gone
       IN /\ s_controller_state' = parsed.states
          /\ s_out_xfer' = led.out
          /\ s_out_pending' = led.pending
          /\ s_in_xfer' = IF resubmit /\ sub_ok THEN "inflight" ELSE "idle"
          /\ rx_last' =
                IF traced
                THEN [ev |-> "in_xfer", status |-> in_result.status,
                      data |-> in_result.data, before |-> s_controller_state,
                      opening |-> s_opening_device, cbs |-> parsed.cbs,
                      lock_ok |-> s_state_mutex = "free",
                      led |-> parsed.led, led_ok |-> parsed.led /\ led_ok,
                      hdl |-> s_device_hdl,
                      out_before |-> [out |-> s_out_xfer, pending |-> s_out_pending],
                      out_after |-> led]
                ELSE [ev |-> "in_xfer", status |-> in_result.status,
                      data |-> in_result.data, before |-> s_controller_state,
                      opening |-> s_opening_device, cbs |-> parsed.cbs]
    /\ in_result' = NoResult
    /\ UNCHANGED <<s_state_mutex, s_receiver_connected, s_opening_device, s_device_gone,
                   s_device_hdl, s_ep_in_addr, s_ep_out_addr, s_pending_dev_addr,
                   s_device_addr, s_device_sem, open_pc, open_i, bus_present,
                   client_events, get_pc, get_last>>
    /\ UNCHANGED otherVars

in_xfer_cb(led_ok, sub_ok) == InXferCb(led_ok, sub_ok, FALSE)

in_xfer_cb_traced(led_ok, sub_ok) == InXferCb(led_ok, sub_ok, TRUE)

\* the OUT transfer completes and out_xfer_cb runs
out_xfer_cb ==
    /\ s_out_xfer = "inflight"
    /\ s_out_xfer' = "idle"
    /\ s_out_pending' = FALSE
    /\ UNCHANGED <<s_controller_state, s_state_mutex, s_receiver_connected,
                   s_opening_device, s_device_gone, s_device_hdl, s_in_xfer, in_result,
                   s_ep_in_addr, s_ep_out_addr, s_pending_dev_addr, s_device_addr,
                   s_device_sem, open_pc, open_i, bus_present, client_events, get_pc, get_last,
                   rx_last>>
    /\ UNCHANGED otherVars

\* client_event_cb, case USB_HOST_CLIENT_EVENT_NEW_DEV
ClientNewDev ==
    /\ client_events # <<>>
    /\ Head(client_events) = "NEW_DEV"
    /\ client_events' = Tail(client_events)
    /\ s_device_gone' = FALSE
    /\ IF ~s_receiver_connected /\ s_pending_dev_addr = 0
       THEN s_pending_dev_addr' = 1 /\ s_device_sem' = 1
       ELSE UNCHANGED <<s_pending_dev_addr, s_device_sem>>
    /\ rx_last' = [ev |-> "NEW_DEV", before |-> s_controller_state,
                   opening |-> s_opening_device, cbs |-> <<>>]
    /\ UNCHANGED <<s_controller_state, s_state_mutex, s_receiver_connected,
                   s_opening_device, s_device_hdl, s_in_xfer, in_result,
                   s_out_xfer, s_out_pending, s_ep_in_addr, s_ep_out_addr,
                   s_device_addr, open_pc, open_i, bus_present, get_pc, get_last>>
    /\ UNCHANGED otherVars

\* client_event_cb, case USB_HOST_CLIENT_EVENT_DEV_GONE: s_device_gone = true,
\* then close_device(true)
ClientDevGone ==
    /\ client_events # <<>>
    /\ Head(client_events) = "DEV_GONE"
    /\ client_events' = Tail(client_events)
    /\ s_device_gone' = TRUE
    /\ s_receiver_connected' = FALSE
    /\ IF s_opening_device
       THEN /\ rx_last' = [ev |-> "DEV_GONE", before |-> s_controller_state,
                           opening |-> TRUE, cbs |-> <<>>]
            /\ UNCHANGED <<s_controller_state, s_device_hdl, s_in_xfer, in_result,
                           s_out_xfer, s_out_pending, s_ep_in_addr, s_ep_out_addr,
                           s_device_addr>>
       ELSE /\ s_in_xfer' = "null"
            /\ in_result' = NoResult
            /\ s_out_xfer' = "null"
            /\ s_out_pending' = IF s_out_xfer # "null" THEN FALSE ELSE s_out_pending
            /\ s_device_hdl' = FALSE
            /\ s_ep_in_addr' = 0
            /\ s_ep_out_addr' = 0
            /\ s_device_addr' = 0
            /\ s_controller_state' =
                   [i \in Slots |-> [s_controller_state[i] EXCEPT !.connected = FALSE]]
            /\ rx_last' = [ev |-> "DEV_GONE", before |-> s_controller_state,
                           opening |-> FALSE,
                           cbs |-> MarkDisconnected(s_controller_state, 0)]
    /\ UNCHANGED <<s_state_mutex, s_opening_device, s_pending_dev_addr, s_device_sem,
                   open_pc, open_i, bus_present, get_pc, get_last>>
    /\ UNCHANGED otherVars

\* device_task takes s_device_sem; if an address is pending and no receiver is
\* connected it enters open_device: flags, then usb_host_device_open
DeviceTaskWake(open_ok) ==
    /\ open_pc = "idle"
    /\ s_device_sem = 1
    /\ s_device_sem' = 0
    /\ IF s_pending_dev_addr # 0 /\ ~s_receiver_connected
       THEN /\ s_ep_in_addr' = 0
            /\ s_device_gone' = FALSE
            /\ IF open_ok
               THEN /\ s_opening_device' = TRUE
                    /\ s_device_hdl' = TRUE
                    /\ open_pc' = "stability"
                    /\ UNCHANGED s_pending_dev_addr
               ELSE /\ s_opening_device' = FALSE
                    /\ s_pending_dev_addr' = 0
                    /\ UNCHANGED <<s_device_hdl, open_pc>>
       ELSE UNCHANGED <<s_ep_in_addr, s_device_gone, s_opening_device, s_device_hdl,
                        open_pc, s_pending_dev_addr>>
    /\ open_i' = 0
    /\ UNCHANGED <<s_controller_state, s_state_mutex, s_receiver_connected, s_in_xfer,
                   in_result, s_out_xfer, s_out_pending, s_ep_out_addr, s_device_addr,
                   bus_present, client_events, get_pc, get_last, rx_last>>
    /\ UNCHANGED otherVars

\* the exits of open_device through fail_close (and the return to device_task,
\* which clears s_pending_dev_addr)
FailClose ==
    /\ s_device_hdl' = FALSE
    /\ s_ep_in_addr' = 0
    /\ s_opening_device' = FALSE
    /\ s_pending_dev_addr' = 0
    /\ open_pc' = "idle"

\* open_device: one round of the stability wait (vTaskDelay, then the test of
\* s_device_gone)
OpenStability ==
    /\ open_pc = "stability"
    /\ IF s_device_gone
       THEN /\ s_device_hdl' = FALSE
            /\ s_opening_device' = FALSE
            /\ s_pending_dev_addr' = 0
            /\ open_pc' = "idle"
            /\ open_i' = 0
       ELSE /\ open_i' = open_i + 1
            /\ open_pc' = IF open_i + 1 = STABILITY_CHECKS THEN "descriptors" ELSE open_pc
            /\ UNCHANGED <<s_device_hdl, s_opening_device, s_pending_dev_addr>>
    /\ UNCHANGED <<s_controller_state, s_state_mutex, s_receiver_connected, s_device_gone,
                   s_in_xfer, in_result, s_out_xfer, s_out_pending, s_ep_in_addr,
                   s_ep_out_addr, s_device_addr, s_device_sem, bus_present,
                   client_events, get_pc, get_last, rx_last>>
    /\ UNCHANGED otherVars

\* open_device: device descriptor, VID/PID test, configuration descriptor and
\* the search for the interrupt endpoints
OpenDescriptors(outcome) ==
    /\ open_pc = "descriptors"
    /\ IF outcome # "ok" \/ s_device_gone
       THEN FailClose /\ UNCHANGED s_ep_out_addr
       ELSE /\ s_ep_in_addr' = 129
            /\ s_ep_out_addr' = IF s_ep_out_addr = 0 THEN 1 ELSE s_ep_out_addr
            /\ open_pc' = "claim"
            /\ UNCHANGED <<s_device_hdl, s_opening_device, s_pending_dev_addr>>
    /\ UNCHANGED <<s_controller_state, s_state_mutex, s_receiver_connected, s_device_gone,
                   s_in_xfer, in_result, s_out_xfer, s_out_pending, s_device_addr,
                   s_device_sem, open_i, bus_present, client_events, get_pc, get_last, rx_last>>
    /\ UNCHANGED otherVars

\* open_device: the wait before the claim, usb_host_interface_claim, allocation
\* and submission of the IN transfer
OpenClaim(outcome) ==
    /\ open_pc = "claim"
    /\ IF s_device_gone \/ outcome \in {"claim_err", "alloc_err"}
       THEN FailClose /\ UNCHANGED <<s_in_xfer, in_result>>
       ELSE IF outcome = "submit_err"
       THEN FailClose /\ s_in_xfer' = "null" /\ UNCHANGED in_result
       ELSE /\ s_in_xfer' = "inflight"
            /\ open_pc' = "in_submitted"
            /\ UNCHANGED <<s_device_hdl, s_ep_in_addr, s_opening_device,
                           s_pending_dev_addr, in_result>>
    /\ UNCHANGED <<s_controller_state, s_state_mutex, s_receiver_connected, s_device_gone,
                   s_out_xfer, s_out_pending, s_ep_out_addr, s_device_addr,
                   s_device_sem, open_i, bus_present, client_events, get_pc, get_last, rx_last>>
    /\ UNCHANGED otherVars

\* open_device: allocation of the OUT transfer, send_player_led(XBOX_SLOT_1),
\* s_device_addr and s_receiver_connected = true
OpenOutAlloc(alloc_ok, led_ok) ==
    /\ open_pc = "in_submitted"
    /\ IF ~alloc_ok
       THEN /\ FailClose
            /\ s_in_xfer' = "null"
            /\ in_result' = NoResult
            /\ UNCHANGED <<s_out_xfer, s_out_pending, s_device_addr, s_receiver_connected>>
       ELSE /\ LET led == send_player_led("idle", s_device_hdl, s_out_pending, led_ok)
               IN s_out_xfer' = led.out /\ s_out_pending' = led.pending
            /\ s_device_addr' = s_pending_dev_addr
            /\ s_receiver_connected' = TRUE
            /\ open_pc' = "ready"
            /\ UNCHANGED <<s_device_hdl, s_ep_in_addr, s_opening_device,
                           s_pending_dev_addr, s_in_xfer, in_result>>
    /\ UNCHANGED <<s_controller_state, s_state_mutex, s_device_gone, s_ep_out_addr,
                   s_device_sem, open_i, bus_present, client_events, get_pc, get_last, rx_last>>
    /\ UNCHANGED otherVars

\* open_device: s_opening_device = false and the return to device_task
OpenReturn ==
    /\ open_pc = "ready"
    /\ s_opening_device' = FALSE
    /\ s_pending_dev_addr' = 0
    /\ open_pc' = "idle"
    /\ UNCHANGED <<s_controller_state, s_state_mutex, s_receiver_connected, s_device_gone,
                   s_device_hdl, s_in_xfer, in_result, s_out_xfer, s_out_pending,
                   s_ep_in_addr, s_ep_out_addr, s_device_addr, s_device_sem, open_i,
                   bus_present, client_events, get_pc, get_last, rx_last>>
    /\ UNCHANGED otherVars

\* xbox_receiver_get_state(slot, state): the take of s_state_mutex
GetStateTake(slot) ==
    /\ get_pc = GetIdle
    /\ s_state_mutex = "free"
    /\ s_state_mutex' = "api"
    /\ get_pc' = [fn |-> "xbox_receiver_get_state", slot |-> slot]
    /\ UNCHANGED <<get_last, s_controller_state, s_receiver_connected, s_opening_device,
                   s_device_gone, s_device_hdl, s_in_xfer, in_result, s_out_xfer,
                   s_out_pending, s_ep_in_addr, s_ep_out_addr, s_pending_dev_addr,
                   s_device_addr, s_device_sem, open_pc, open_i, bus_present,
                   client_events, rx_last>>
    /\ UNCHANGED otherVars

\* xbox_receiver_get_state returning ESP_OK for every slot
GetStateResult_ok(state) == "ESP_OK"

\* the return value of xbox_receiver_get_state once the slot is copied
GetStateResult(state) == IF state.connected THEN "ESP_OK" ELSE "ESP_ERR_NOT_FOUND"

\* xbox_receiver_get_state: memcpy and xSemaphoreGive; with `traced` the call
\* is recorded in get_last
GetStateReturn(traced) ==
    /\ get_pc # GetIdle
    /\ s_state_mutex' = "free"
    /\ get_pc' = GetIdle
    /\ get_last' = IF traced
                   THEN [slot |-> get_pc.slot, null |-> FALSE, locked |-> TRUE,
                         result |-> GetStateResult(s_controller_state[get_pc.slot]),
                         out |-> <<s_controller_state[get_pc.slot]>>]
                   ELSE get_last
    /\ UNCHANGED <<s_controller_state, s_receiver_connected, s_opening_device,
                   s_device_gone, s_device_hdl, s_in_xfer, in_result, s_out_xfer,
                   s_out_pending, s_ep_in_addr, s_ep_out_addr, s_pending_dev_addr,
                   s_device_addr, s_device_sem, open_pc, open_i, bus_present,
                   client_events, rx_last>>
    /\ UNCHANGED otherVars

GetStateGive == GetStateReturn(FALSE)

GetStateGive_traced == GetStateReturn(TRUE)

\* xbox_receiver_get_state with slot >= XBOX_SLOT_MAX or state == NULL
GetStateInvalid(slot, null) ==
    /\ slot >= XBOX_SLOT_MAX \/ null
    /\ get_last' = [slot |-> slot, null |-> null, locked |-> FALSE,
                    result |-> "ESP_ERR_INVALID_ARG", out |-> <<>>]
    /\ UNCHANGED <<s_controller_state, s_state_mutex, s_receiver_connected,
                   s_opening_device, s_device_gone, s_device_hdl, s_in_xfer, in_result,
                   s_out_xfer, s_out_pending, s_ep_in_addr, s_ep_out_addr,
                   s_pending_dev_addr, s_device_addr, s_device_sem, open_pc, open_i,
                   bus_present, client_events, get_pc, rx_last>>
    /\ UNCHANGED otherVars

\* xbox_receiver_get_state called while another call holds s_state_mutex for
\* the 50 ms of the wait
GetStateTimeout(slot) ==
    /\ slot < XBOX_SLOT_MAX
    /\ s_state_mutex # "free"
    /\ get_last' = [slot |-> slot, null |-> FALSE, locked |-> FALSE,
                    result |-> "ESP_ERR_TIMEOUT", out |-> <<>>]
    /\ UNCHANGED <<s_controller_state, s_state_mutex, s_receiver_connected,
                   s_opening_device, s_device_gone, s_device_hdl, s_in_xfer, in_result,
                   s_out_xfer, s_out_pending, s_ep_in_addr, s_ep_out_addr,
                   s_pending_dev_addr, s_device_addr, s_device_sem, open_pc, open_i,
                   bus_present, client_events, get_pc, rx_last>>
    /\ UNCHANGED otherVars

InitRecv ==
    /\ RecvInit
    /\ CrsfInit
    /\ ClockInit
    /\ MainInit
    /\ s_config = MIXER_CONFIG_DEFAULT
    /\ mx_state = ZeroState
    /\ mx_out = NoVec
    /\ mx_pc = "ready"
    /\ mx_seen = {}

NextRecv ==
    \/ Attach
    \/ Detach
    \/ \E data \in Reports : XferComplete("COMPLETED", data)
    \/ \E status \in {"NO_DEVICE", "ERROR"} : XferComplete(status, <<>>)
    \/ \E led_ok \in BOOLEAN, sub_ok \in BOOLEAN : in_xfer_cb(led_ok, sub_ok)
    \/ out_xfer_cb
    \/ ClientNewDev
    \/ ClientDevGone
    \/ \E open_ok \in BOOLEAN : DeviceTaskWake(open_ok)
    \/ OpenStability
    \/ \E outcome \in {"ok", "desc_err", "wrong_id", "config_err", "no_endpoints"} :
            OpenDescriptors(outcome)
    \/ \E outcome \in {"ok", "claim_err", "alloc_err", "submit_err"} : OpenClaim(outcome)
    \/ \E alloc_ok \in BOOLEAN, led_ok \in BOOLEAN : OpenOutAlloc(alloc_ok, led_ok)
    \/ OpenReturn
    \/ \E slot \in Slots : GetStateTake(slot)
    \/ GetStateGive

SpecRecv == InitRecv /\ [][NextRecv]_vars

\* C3: every call of the report parser with the payload [0x08, 0x00] leaves
\* the slot with connected == false and invokes the callback exactly once, with
\* a snapshot whose connected is false, whatever the slot's state before.
DisconnectNotificationFires ==
    (rx_last.ev = "in_xfer" /\ rx_last.status = "COMPLETED" /\ rx_last.data = Notify00)
        => /\ ~s_controller_state[XBOX_SLOT_1].connected
           /\ Len(rx_last.cbs) = 1
           /\ rx_last.cbs[1].slot = XBOX_SLOT_1
           /\ ~rx_last.cbs[1].state.connected

\* C4: once a device removal event has been handled every slot has
\* connected == false, and the callback ran exactly once, with connected ==
\* false, for each slot that was connected, also when an open is in flight.
RemovalDisconnectsAll ==
    rx_last.ev = "DEV_GONE"
        => /\ \A i \in Slots : ~s_controller_state[i].connected
           /\ Len(rx_last.cbs) = Cardinality({i \in Slots : rx_last.before[i].connected})
           /\ \A i \in Slots : rx_last.before[i].connected
                => \E k \in 1 .. Len(rx_last.cbs) :
                      rx_last.cbs[k].slot = i /\ ~rx_last.cbs[k].state.connected

(***************************************************************************)
(* SpecSession: the steady state of xbox_receiver.c after open_device has  *)
(* returned ESP_OK: the IN transfer is submitted, the LED command of       *)
(* open_device is in flight, and the receiver delivers reports one after   *)
(* the other while xbox_receiver_get_state may hold s_state_mutex.         *)
(***************************************************************************)

\* bytes 10-11 (low, high) of the input reports delivered in this model
WheelWords ==
    { <<255, 255>>, <<255, 127>>, <<1, 128>> }

\* an input report with both triggers at 50 and the given wheel word
WheelReport(w) == MkReport(1, 240, 0, 0, 50, 50, w[1], w[2])

SessionReports ==
    { Notify00, Notify80, InputA, InputB }
    \cup { WheelReport(w) : w \in WheelWords }
    \cup { SubSeq(InputA, 1, 12),                  \* exactly 12 bytes
           MkReport(0, 240, 0, 16, 7, 9, 0, 128),  \* keepalive, header 0xf0
           MkReport(0, 128, 0, 32, 9, 7, 0, 64),   \* keepalive, header 0x80
           MkReport(1, 0, 0, 16, 7, 9, 0, 128),    \* byte 3 is no input header
           [InputA EXCEPT ![1] = 8],               \* byte 0 is not 0x00
           SubSeq(InputA, 1, 11),                  \* 11 bytes
           <<0, 1, 0>>,
           <<9, 128>>, <<0, 128>>,                 \* 2 bytes, first is not 0x08
           <<8>>,
           <<>> }                                  \* zero-length transfer

\* state at the return of open_device with ESP_OK
InitSession ==
    /\ s_controller_state = [i \in Slots |-> ZeroState]
    /\ s_state_mutex = "free"
    /\ s_receiver_connected = TRUE
    /\ s_opening_device = FALSE
    /\ s_device_gone = FALSE
    /\ s_device_hdl = TRUE
    /\ s_in_xfer = "inflight"
    /\ in_result = NoResult
    /\ s_out_xfer = "inflight"
    /\ s_out_pending = TRUE
    /\ s_ep_in_addr = 129
    /\ s_ep_out_addr = 1
    /\ s_pending_dev_addr = 0
    /\ s_device_addr = 1
    /\ s_device_sem = 0
    /\ open_pc = "idle"
    /\ open_i = STABILITY_CHECKS
    /\ bus_present = TRUE
    /\ client_events = <<>>
    /\ get_pc = GetIdle
    /\ get_last = NoRead
    /\ led_pc = NoLed
    /\ rx_last = NoHandler
    /\ CrsfInit
    /\ ClockInit
    /\ MainInit
    /\ s_config = MIXER_CONFIG_DEFAULT
    /\ mx_state = ZeroState
    /\ mx_out = NoVec
    /\ mx_pc = "ready"
    /\ mx_seen = {}

NextSession ==
    \/ \E data \in SessionReports : XferComplete("COMPLETED", data)
    \/ XferComplete("ERROR", <<>>)
    \/ \E led_ok \in BOOLEAN, sub_ok \in BOOLEAN : in_xfer_cb_traced(led_ok, sub_ok)
    \/ out_xfer_cb
    \/ \E slot \in Slots : GetStateTake(slot)
    \/ GetStateGive

SpecSession == InitSession /\ [][NextSession]_vars

\* the last handler run was in_xfer_cb on a completed transfer
ReportHandled == rx_last.ev = "in_xfer" /\ rx_last.status = "COMPLETED"

\* an input report: at least 12 bytes, byte 0 is 0x00, byte 3 is 0xf0 or 0x80
\* and byte 1 is 0x01
InputReportHandled ==
    /\ ReportHandled
    /\ Len(rx_last.data) >= 12
    /\ rx_last.data[1] = 0
    /\ rx_last.data[4] \in {240, 128}
    /\ rx_last.data[2] = 1

\* slot 1 is connected with the triggers of the report, and the callback ran
\* once with the state just stored
InputStored ==
    /\ s_controller_state[XBOX_SLOT_1].connected
    /\ s_controller_state[XBOX_SLOT_1].right_trigger = rx_last.data[10]
    /\ s_controller_state[XBOX_SLOT_1].left_trigger = rx_last.data[9]
    /\ Len(rx_last.cbs) = 1
    /\ rx_last.cbs[1].slot = XBOX_SLOT_1
    /\ rx_last.cbs[1].state = s_controller_state[XBOX_SLOT_1]

\* C11 as stated: every input report sets connected, stores right trigger =
\* byte 9 and left trigger = byte 8, and invokes the callback exactly once
\* with a snapshot equal to the slot state just stored.
InputReportStored == InputReportHandled => InputStored

\* C11: an input report handled while s_state_mutex is obtained within its
\* 10 ms wait sets connected, stores right trigger = byte 9 and left trigger =
\* byte 8 and invokes the callback exactly once with the state just stored;
\* when the wait times out the report changes no state and invokes no callback.
InputReportStoredWhenLocked ==
    InputReportHandled =>
        IF rx_last.lock_ok THEN InputStored
        ELSE s_controller_state = rx_last.before /\ rx_last.cbs = <<>>

InputStoredWitness ==
    /\ InputReportHandled
    /\ rx_last.lock_ok
    /\ ~rx_last.before[XBOX_SLOT_1].connected
    /\ s_controller_state[XBOX_SLOT_1].right_trigger = 255
    /\ s_controller_state[XBOX_SLOT_1].left_trigger = 0
    /\ Len(rx_last.cbs) = 1

\* C12: the 2-byte report [0x08, 0x80] leaves every slot's state unchanged and
\* invokes no callback; it calls send_player_led, which submits the LED
\* command on the OUT transfer when that transfer is allocated and idle.
ConnectNotifyOnlyLed ==
    (ReportHandled /\ rx_last.data = <<8, 128>>)
        => /\ s_controller_state = rx_last.before
           /\ rx_last.cbs = <<>>
           /\ rx_last.led
           /\ (rx_last.out_before = [out |-> "idle", pending |-> FALSE]
                    /\ rx_last.hdl /\ rx_last.led_ok)
                => rx_last.out_after = [out |-> "inflight", pending |-> TRUE]

ConnectNotifyWitness ==
    /\ ReportHandled
    /\ rx_last.data = <<8, 128>>
    /\ rx_last.before[XBOX_SLOT_1].connected
    /\ rx_last.out_before.out = "idle"
    /\ rx_last.out_after.out = "inflight"
    /\ s_controller_state[XBOX_SLOT_1].connected

\* a report with the input header (byte 0 is 0x00, byte 3 is 0xf0 or 0x80)
\* whose byte 1 is 0x00
KeepaliveHandled ==
    /\ ReportHandled
    /\ Len(rx_last.data) >= 12
    /\ rx_last.data[1] = 0
    /\ rx_last.data[4] \in {240, 128}
    /\ rx_last.data[2] = 0

\* C13: a keepalive report leaves every slot's state unchanged, a connected
\* slot staying connected with its axes and buttons, and invokes no callback.
KeepaliveNoOp ==
    KeepaliveHandled => s_controller_state = rx_last.before /\ rx_last.cbs = <<>>

KeepaliveWitness ==
    /\ KeepaliveHandled
    /\ rx_last.lock_ok
    /\ rx_last.before[XBOX_SLOT_1].connected
    /\ rx_last.before[XBOX_SLOT_1].right_trigger = 255
    /\ rx_last.before[XBOX_SLOT_1].buttons.a
    /\ rx_last.data[10] = 9
    /\ s_controller_state[XBOX_SLOT_1].right_trigger = 255

\* a report shorter than 2 bytes, of 3 to 11 bytes, of 2 bytes whose first is
\* not 0x08, or of 12 bytes or more whose header does not match
UnrecognisedHandled ==
    /\ ReportHandled
    /\ \/ Len(rx_last.data) < 2
       \/ Len(rx_last.data) \in 3 .. 11
       \/ Len(rx_last.data) = 2 /\ rx_last.data[1] # 8
       \/ Len(rx_last.data) >= 12
            /\ (rx_last.data[1] # 0 \/ rx_last.data[4] \notin {240, 128})

\* C14: an unrecognised report changes no slot state, submits nothing on the
\* OUT transfer and invokes no callback.
UnrecognisedIgnored ==
    UnrecognisedHandled
        => /\ s_controller_state = rx_last.before
           /\ rx_last.cbs = <<>>
           /\ ~rx_last.led
           /\ rx_last.out_after = rx_last.out_before

UnrecognisedWitness ==
    /\ UnrecognisedHandled
    /\ rx_last.data = <<9, 128>>
    /\ rx_last.lock_ok
    /\ rx_last.before[XBOX_SLOT_1].connected
    /\ rx_last.out_before = [out |-> "idle", pending |-> FALSE]

\* C15: the steering stored from an accepted input report is 0 when the wheel
\* word (bytes 10-11, little-endian) is the midpoint 0x8000, has magnitude
\* 32767 when the word is at a rail (0x0000 or 0xFFFF), and lies in
\* [-32767, 32767] for every word.
SteeringDecodeCanonical ==
    (InputReportHandled /\ rx_last.lock_ok) =>
        LET wheel_raw == rx_last.data[11] + 256 * rx_last.data[12]
            stored == s_controller_state[XBOX_SLOT_1].left_stick_x
        IN /\ wheel_raw = 32768 => stored = 0
           /\ wheel_raw \in {0, 65535} => stored \in {-32767, 32767}
           /\ stored \in -32767 .. 32767

\* mixer_process ran on a connected state with steering deadband 0, steering
\* expo 0 and steering invert off
CanonicalSteeringCase ==
    /\ mx_pc = "done"
    /\ mx_state.connected
    /\ s_config.deadband.steering = 0
    /\ s_config.expo.steering = 0
    /\ ~s_config.steering_invert

\* C16: with deadband 0, expo 0 and invert off, steering 0 gives the centre of
\* the channel range, the steering channel is non-decreasing in the steering
\* over -32767 .. 32767, and steering +32767 / -32767 give the right / left
\* endpoint-capped extremes.
MixerSteeringCanonical ==
    CanonicalSteeringCase =>
        /\ mx_state.left_stick_x = 0
            => mx_out[RC_CH_AILERON] \in {CRSF_CHANNEL_MID, crsf_scale_axis(0)}
        /\ \A x \in SteerSamples \cap (-32767 .. 32767) :
                (mx_state.left_stick_x >= -32767 /\ x <= mx_state.left_stick_x)
                    => MixSteering([mx_state EXCEPT !.left_stick_x = x], s_config)
                            <= mx_out[RC_CH_AILERON]
        /\ mx_state.left_stick_x = 32767
            => mx_out[RC_CH_AILERON]
                 = crsf_scale_axis(apply_endpoint(32767, s_config.steering_endpoint_right))
        /\ mx_state.left_stick_x = -32767
            => mx_out[RC_CH_AILERON]
                 = crsf_scale_axis(apply_endpoint(-32767, s_config.steering_endpoint_left))

\* C17: in Combined mode, equal throttle and brake triggers (both 0 included)
\* give the protocol centre value 992 on the throttle channel, for every
\* endpoint percentage and either invert setting.
CombinedEqualTriggersCenter ==
    (/\ mx_pc = "done"
     /\ mx_state.connected
     /\ s_config.throttle_mode = MIX_MODE_COMBINED
     /\ mx_state.right_trigger = mx_state.left_trigger)
        => mx_out[RC_CH_THROTTLE] = CRSF_CHANNEL_MID

(***************************************************************************)
(* SpecFrame: pack_channels and send_channels_frame of crsf.c applied to   *)
(* channel vectors stored by crsf_set_channels, which stores any uint16_t  *)
(* values it is given.                                                     *)
(***************************************************************************)

\* channel values within 11 bits, and values with bits 11-15 set
CodecValues == {0, 1, 172, 682, 992, 1365, 1811, 2047}
WideValues == {2048, 4101, 32768, 63488, 65535}

CodecBases ==
    { [i \in Channels |-> 0], [i \in Channels |-> 2047],
      [i \in Channels |-> IF i % 2 = 0 THEN 1365 ELSE 682] }

\* the vectors handed to crsf_set_channels: one channel differs from a base
CodecVectors ==
    { [base EXCEPT ![i] = v] :
        base \in CodecBases, i \in Channels, v \in CodecValues \cup WideValues }

\* state after crsf_init and one crsf_set_channels(v)
InitFrame ==
    /\ s_channels \in CodecVectors
    /\ s_failsafe_channels = [AllMid EXCEPT ![2] = CRSF_CHANNEL_MIN]
    /\ s_channels_mutex = "free"
    /\ s_running = TRUE
    /\ uart = NoVec
    /\ tx_pc = "wait"
    /\ api_pc = ApiIdle
    /\ api_last = NoCall
    /\ tick = 0
    /\ ever_updated = TRUE
    /\ last_update_tick = 0
    /\ upd_stale = FALSE
    /\ upd_sent = FALSE
    /\ upd_vec = s_channels
    /\ tx_log = NoLog
    /\ MainInit
    /\ RecvInit
    /\ s_config = MIXER_CONFIG_DEFAULT
    /\ mx_state = ZeroState
    /\ mx_out = NoVec
    /\ mx_pc = "ready"
    /\ mx_seen = {}

NextFrame ==
    \/ TxTake
    \/ TxSend
    \/ TxTimeout
    \/ ApiTake([fn |-> "crsf_set_failsafe", arg |-> TestFailsafe])
    \/ ApiDone

SpecFrame == InitFrame /\ [][NextFrame]_vars

\* the vector send_channels_frame packed into the frame last written
SentVector == IF tx_log.locked THEN tx_log.live ELSE AllMid

\* C18: a vector of 16 values in 0 .. 2047 packed into a frame's payload is
\* recovered, element for element, by unpack_channels.
PackRoundTrip ==
    (tx_log.sent /\ \A i \in Channels : SentVector[i] \in 0 .. 2047)
        => unpack_channels([k \in 0 .. 21 |-> uart[k + 3]]) = SentVector

PackRoundTripWitness ==
    /\ tx_log.sent
    /\ tx_log.locked
    /\ tx_log.live[1] = 2047
    /\ tx_log.live[0] = 1365
    /\ tx_log.live[2] = 1365
    /\ FrameVector(uart)[1] = 2047

\* C19: the payload packed from arbitrary 16-bit values equals the payload
\* packed from the same values masked to their low 11 bits, so bits 11-15 of
\* a channel never reach another channel's bits.
PackMasksInputs ==
    tx_log.sent =>
        \A k \in 0 .. 21 :
            uart[k + 3] = pack_channels([i \in Channels |-> BitAnd(SentVector[i], 2047)])[k]

\* C20: every frame written is 26 bytes: 0xC8, 24, 0x16, the 22 bytes of
\* pack_channels of the vector chosen for this frame, and the crc8 of bytes
\* 2 .. 24.
WireFrameLayout ==
    tx_log.sent =>
        /\ DOMAIN uart = 0 .. 25
        /\ uart[0] = 200
        /\ uart[1] = 24
        /\ uart[2] = 22
        /\ \A k \in 0 .. 21 : uart[k + 3] = pack_channels(SentVector)[k]
        /\ uart[25] = crc8(uart, 2, 23)

WireFrameWitness ==
    /\ tx_log.sent
    /\ tx_log.locked
    /\ tx_log.live[15] = 1811
    /\ tx_log.live[14] = 2047
    /\ uart[24] = BitAnd(Shr(1811, 3), 255)
    /\ uart[25] # crc8(uart, 0, 25)

\* C21: when the transmitter's wait for s_channels_mutex times out it still
\* writes a frame in that tick, the frame carries 992 on all 16 channels, and
\* the stored channel vector is left as it was.
TimeoutSendsCenter ==
    [][TxTimeout => /\ tx_log'.sent
                    /\ DOMAIN uart' = 0 .. 25
                    /\ FrameVector(uart') = [i \in Channels |-> 992]
                    /\ s_channels' = s_channels]_vars

TimeoutSendsCenterWitness ==
    /\ tx_log.sent
    /\ ~tx_log.locked
    /\ tx_log.live[0] = 2047
    /\ s_channels = tx_log.live
    /\ FrameVector(uart)[0] = 992

(***************************************************************************)
(* SpecApi: the channel-store API of crsf.c (crsf_set_channels,            *)
(* crsf_set_channel, crsf_set_failsafe) called with arbitrary uint16_t     *)
(* values while crsf_task transmits.                                       *)
(***************************************************************************)

\* a vector with values outside [CRSF_CHANNEL_MIN, CRSF_CHANNEL_MAX]
WideVector == [AllMid EXCEPT ![0] = 0, ![1] = 65535]

\* arguments of crsf_set_channel: channel indices on either side of
\* CRSF_NUM_CHANNELS, values on either side of the clamp limits
ChannelArgs == {0, 16}
ValueArgs == {171, 1000, 1812}

SetChannelCalls ==
    {[fn |-> "crsf_set_channel", channel |-> c, value |-> v] :
        c \in ChannelArgs, v \in ValueArgs}

VectorCalls ==
    {[fn |-> "crsf_set_channels", arg |-> WideVector],
     [fn |-> "crsf_set_failsafe", arg |-> WideVector]}

\* crsf_set_channel with channel >= CRSF_NUM_CHANNELS: returns at once
SetChannelReject(call) ==
    /\ api_pc = ApiIdle
    /\ call.channel >= CRSF_NUM_CHANNELS
    /\ api_last' = [call |-> call, before |-> s_channels, after |-> s_channels,
                    outcome |-> "rejected"]
    /\ UNCHANGED <<s_channels, s_failsafe_channels, s_channels_mutex, s_running, uart,
                   tx_pc, api_pc>>
    /\ UNCHANGED <<clockVars, mixerVars, mainVars, recvVars>>

\* crsf_set_channel with channel < CRSF_NUM_CHANNELS: the take succeeds
SetChannelTake(call) ==
    /\ call.channel < CRSF_NUM_CHANNELS
    /\ ApiTake(call)

\* crsf_set_channel with channel < CRSF_NUM_CHANNELS: the take times out
SetChannelTimeout(call) ==
    /\ call.channel < CRSF_NUM_CHANNELS
    /\ ApiTimeout(call)

NextApi ==
    \/ TxTake
    \/ TxSend
    \/ TxTimeout
    \/ \E call \in VectorCalls : ApiTake(call)
    \/ \E call \in SetChannelCalls : SetChannelReject(call)
    \/ \E call \in SetChannelCalls : SetChannelTake(call)
    \/ \E call \in SetChannelCalls : SetChannelTimeout(call)
    \/ ApiDone

SpecApi == InitCrsf /\ [][NextApi]_vars

\* C22: whatever crsf_set_channels, crsf_set_channel and crsf_set_failsafe
\* calls and transmitter ticks have happened, every element of the stored
\* channel vector and every channel value carried by a transmitted frame lies
\* in [172, 1811].
ChannelRangeInvariant ==
    /\ \A i \in Channels : s_channels[i] \in 172 .. 1811
    /\ tx_log.sent => \A i \in Channels : FrameVector(uart)[i] \in 172 .. 1811

\* the value crsf_set_channel is specified to store for v
Clamped(v) == IF v < 172 THEN 172 ELSE IF v > 1811 THEN 1811 ELSE v

\* the vector after the last crsf_set_channel(c, v) is the one before it with
\* channel c replaced by the clamped v, or the one before it when c >= 16
SetChannelEffect ==
    IF api_last.call.channel < 16
    THEN api_last.after =
            [api_last.before EXCEPT ![api_last.call.channel] = Clamped(api_last.call.value)]
    ELSE api_last.after = api_last.before

\* C23 as stated: crsf_set_channel(c, v) with c < 16 stores min(max(v, 172),
\* 1811) in channel c and leaves the other 15 channels unchanged; with
\* c >= 16 it changes nothing.
SetChannelStores == api_last # NoCall => SetChannelEffect

\* C23: crsf_set_channel(c, v) with c < 16 that obtains s_channels_mutex
\* within its 10 ms wait stores min(max(v, 172), 1811) in channel c and leaves
\* the other 15 channels unchanged; when the wait times out, or with c >= 16,
\* it changes nothing.
SetChannelStoresWhenLocked ==
    api_last # NoCall =>
        IF api_last.outcome = "timeout" THEN api_last.after = api_last.before
        ELSE SetChannelEffect

SetChannelWitness ==
    /\ api_last # NoCall
    /\ api_last.outcome = "stored"
    /\ api_last.call.value = 1812
    /\ api_last.before[0] = 0
    /\ api_last.after[0] = 1811
    /\ api_last.after[1] = 65535

(***************************************************************************)
(* SpecRead: xbox_receiver_get_state called from application tasks while   *)
(* the receiver streams reports.                                           *)
(***************************************************************************)

\* slot arguments on either side of XBOX_SLOT_MAX
SlotArgs == {0, 1, 4}

\* an input report, a connect notification, a keepalive, and an input report
\* with the bits of both stick clicks (0x0040, 0x0080), guide (0x0400) and y
ReadReports ==
    { InputA, Notify80, MkReport(0, 240, 0, 16, 7, 9, 0, 128),
      MkReport(1, 240, 192, 132, 0, 0, 0, 128) }

NextRead ==
    \/ \E data \in ReadReports : XferComplete("COMPLETED", data)
    \/ \E led_ok \in BOOLEAN, sub_ok \in BOOLEAN : in_xfer_cb(led_ok, sub_ok)
    \/ out_xfer_cb
    \/ \E slot \in SlotArgs, null \in BOOLEAN : GetStateInvalid(slot, null)
    \/ \E slot \in SlotArgs \cap Slots : GetStateTake(slot)
    \/ \E slot \in SlotArgs : GetStateTimeout(slot)
    \/ GetStateGive_traced

SpecRead == InitSession /\ [][NextRead]_vars

\* C24: xbox_receiver_get_state returns invalid-argument for a slot index >= 4
\* or a null output and then writes nothing; returns timeout when the lock is
\* not acquired within the wait and then writes nothing; otherwise returns OK
\* exactly when the slot is connected and not-found exactly when it is not;
\* no call modifies the slot table.
ReadResults ==
    [][get_last' # get_last =>
        /\ s_controller_state' = s_controller_state
        /\ IF get_last'.slot >= 4 \/ get_last'.null
           THEN get_last'.result = "ESP_ERR_INVALID_ARG" /\ get_last'.out = <<>>
           ELSE IF ~get_last'.locked
           THEN get_last'.result = "ESP_ERR_TIMEOUT" /\ get_last'.out = <<>>
           ELSE /\ get_last'.result \in {"ESP_OK", "ESP_ERR_NOT_FOUND"}
                /\ get_last'.result = "ESP_OK"
                     <=> s_controller_state[get_last'.slot].connected
                /\ get_last'.result = "ESP_ERR_NOT_FOUND"
                     <=> ~s_controller_state[get_last'.slot].connected]_vars

ReadResultsWitness ==
    /\ get_last # NoRead
    /\ get_last.result = "ESP_OK"
    /\ get_last.slot = 0
    /\ get_last.out = <<s_controller_state[0]>>
    /\ s_controller_state[0].right_trigger = 255
    /\ ~s_controller_state[1].connected

(***************************************************************************)
(* SpecSwap: mixer_process running in the receiver's callback while        *)
(* another task calls mixer_set_config.  Neither function takes a lock:    *)
(* mixer_process reads the fields of s_config one statement after the      *)
(* other, and the memcpy of mixer_set_config can land between any two of   *)
(* its sections.                                                           *)
(***************************************************************************)

SwapConfigs ==
    { MIXER_CONFIG_DEFAULT, AltConfig,
      [MIXER_CONFIG_DEFAULT EXCEPT !.throttle_mode = MIX_MODE_SEPARATE,
                                   !.steering_invert = TRUE],
      \* a paddle and a button mapped to index 16, one past the last channel
      [MIXER_CONFIG_DEFAULT EXCEPT !.paddle_left_channel = CRSF_NUM_CHANNELS,
                                   !.button_a_channel = CRSF_NUM_CHANNELS] }

SwapStates ==
    { st \in XboxStates :
        /\ st.left_stick_x \in {0, 16384}
        /\ st.right_trigger \in {50, 255}
        /\ st.left_trigger \in {0, 50}
        /\ st.buttons \in {Buttons({}), Buttons({"a"})} }

InitSwap ==
    /\ s_config \in SwapConfigs
    /\ mx_state \in SwapStates
    /\ mx_out = NoVec
    /\ mx_pc = "ready"
    /\ mx_seen = {}
    /\ CrsfInit
    /\ ClockInit
    /\ MainInit
    /\ RecvInit

\* mixer_set_config(config): memcpy(&s_config, config)
mixer_set_config(config) ==
    /\ s_config' = config
    /\ mx_seen' = IF mx_pc \in {"steered", "throttled"} THEN mx_seen \cup {config}
                                                        ELSE mx_seen
    /\ UNCHANGED <<mx_state, mx_out, mx_pc, crsfVars, clockVars, mainVars, recvVars>>

\* mixer_process, lines 129-173: the fill with CRSF_CHANNEL_MID, the
\* disconnected branch, the steering section
MixSteerStep ==
    /\ mx_pc = "ready"
    /\ mx_seen' = {s_config}
    /\ IF ~mx_state.connected
       THEN /\ mx_out' = [AllMid EXCEPT ![RC_CH_THROTTLE] = CRSF_CHANNEL_MIN]
            /\ mx_pc' = "done"
       ELSE /\ mx_out' = Store(AllMid, RC_CH_AILERON, MixSteering(mx_state, s_config))
            /\ mx_pc' = "steered"
    /\ UNCHANGED <<s_config, mx_state, crsfVars, clockVars, mainVars, recvVars>>

\* mixer_process, lines 175-235: the throttle / brake section
MixThrottleStep ==
    /\ mx_pc = "steered"
    /\ mx_out' = MixThrottleSection(mx_out, mx_state, s_config)
    /\ mx_pc' = "throttled"
    /\ UNCHANGED <<s_config, mx_state, mx_seen, crsfVars, clockVars, mainVars, recvVars>>

\* mixer_process, lines 237-268: the button section and the return
MixButtonStep ==
    /\ mx_pc = "throttled"
    /\ mx_out' = MixButtonSection(mx_out, mx_state, s_config)
    /\ mx_pc' = "done"
    /\ UNCHANGED <<s_config, mx_state, mx_seen, crsfVars, clockVars, mainVars, recvVars>>

NextSwap ==
    \/ \E config \in SwapConfigs : mixer_set_config(config)
    \/ MixSteerStep
    \/ MixThrottleStep
    \/ MixButtonStep

SpecSwap == InitSwap /\ [][NextSwap]_vars

\* C25: the output of every mixer_process invocation is the one computed from
\* one whole configuration that s_config held during the invocation (the old
\* one or a new one), never from fields of two of them.
ConfigSwapAtomic ==
    mx_pc = "done" => \E cfg \in mx_seen : mx_out = mixer_process(mx_state, cfg)

\* C26 as stated: when the transmitter copies the channel vector for a frame
\* with the lock acquired and the watchdog not stale (and the store has been
\* written at least once), the copy equals g_channels, the output of the most
\* recent completed write of xbox_state_callback.
TransmitterSnapshotFresh ==
    [][(TxSend /\ ever_updated /\ ~tx_log'.stale)
            => FrameVector(uart') = g_channels]_vars

\* C26: when the transmitter copies the channel vector for a frame with the
\* lock acquired and the watchdog not stale, the copy equals the vector of the
\* most recent completed crsf_set_channels call, that is g_channels as it was
\* when crsf_send_task last completed a forward.
TransmitterSnapshotForwarded ==
    [][(TxSend /\ ever_updated /\ ~tx_log'.stale)
            => FrameVector(uart') = upd_vec]_vars

\* a frame sent under the lock carried the forwarded vector while g_channels
\* already held a newer write of the callback
TransmitterSnapshotWitness ==
    /\ tx_log.sent /\ tx_log.locked /\ tx_log.ever /\ ~tx_log.stale
    /\ FrameVector(uart) = tx_log.set
    /\ g_channels # tx_log.set
    /\ g_channels # [AllMid EXCEPT ![RC_CH_THROTTLE] = CRSF_CHANNEL_MIN]

\* C27: when the last handled event is a DEV_GONE that found s_opening_device
\* set, the open sequence it interrupted does not mark the receiver connected,
\* and once that sequence has returned the device handle is null, neither
\* transfer is allocated and s_opening_device is clear.
RemovalDuringOpenAborts ==
    (rx_last.ev = "DEV_GONE" /\ rx_last.opening)
        => /\ ~s_receiver_connected
           /\ open_pc = "idle" => /\ ~s_device_hdl
                                  /\ s_in_xfer = "null"
                                  /\ s_out_xfer = "null"
                                  /\ ~s_opening_device

\* a step in which open_device returns on one of its failure paths: an exit
\* from any point before the final return, or usb_host_device_open failing
OpenFails ==
    \/ open_pc \notin {"idle", "ready"} /\ open_pc' = "idle"
    \/ open_pc = "idle" /\ open_pc' = "idle"
          /\ s_pending_dev_addr # 0 /\ s_pending_dev_addr' = 0

\* C28: whenever open_device returns on a failure path the device handle is
\* null, neither transfer is allocated, both endpoint addresses are 0,
\* s_opening_device is clear and the receiver is not connected.
FailedOpenReturnsIdle ==
    [][OpenFails => /\ ~s_device_hdl'
                    /\ s_in_xfer' = "null"
                    /\ s_out_xfer' = "null"
                    /\ s_ep_in_addr' = 0
                    /\ s_ep_out_addr' = 0
                    /\ ~s_opening_device'
                    /\ ~s_receiver_connected']_vars

\* a step in which device_task enters open_device (the call goes on to the
\* stability wait, or returns at once because usb_host_device_open failed)
OpenStarts ==
    \/ open_pc = "idle" /\ open_pc' # "idle"
    \/ open_pc = "idle" /\ open_pc' = "idle"
          /\ s_pending_dev_addr # 0 /\ s_pending_dev_addr' = 0

\* C29: open_device is started only while the receiver is not connected, no
\* other open is in flight and no device handle is open, so that at most one
\* open sequence runs and at most one device handle is open at any time.
SingleSession ==
    [][OpenStarts => /\ ~s_receiver_connected
                     /\ ~s_opening_device
                     /\ ~s_device_hdl]_vars

(***************************************************************************)
(* FairOpen: the enumeration path of xbox_receiver.c under its scheduling. *)
(* client_task and device_task are FreeRTOS tasks that loop forever: an    *)
(* event in the client's queue is handled, a completed transfer has its    *)
(* callback run, a given s_device_sem wakes device_task, and open_device   *)
(* runs on to one of its returns.  Attaching and removing the receiver is  *)
(* up to the environment.                                                  *)
(***************************************************************************)

NextOpen ==
    \/ Attach
    \/ Detach
    \/ \E status \in {"NO_DEVICE", "ERROR"} : XferComplete(status, <<>>)
    \/ \E led_ok \in BOOLEAN, sub_ok \in BOOLEAN : in_xfer_cb(led_ok, sub_ok)
    \/ out_xfer_cb
    \/ ClientNewDev
    \/ ClientDevGone
    \/ \E open_ok \in BOOLEAN : DeviceTaskWake(open_ok)
    \/ OpenStability
    \/ \E outcome \in {"ok", "desc_err", "wrong_id", "config_err", "no_endpoints"} :
            OpenDescriptors(outcome)
    \/ \E outcome \in {"ok", "claim_err", "alloc_err", "submit_err"} : OpenClaim(outcome)
    \/ \E alloc_ok \in BOOLEAN, led_ok \in BOOLEAN : OpenOutAlloc(alloc_ok, led_ok)
    \/ OpenReturn

FairOpen ==
    /\ InitRecv
    /\ [][NextOpen]_vars
    /\ WF_vars(ClientNewDev \/ ClientDevGone)
    /\ WF_vars(out_xfer_cb \/ \E led_ok \in BOOLEAN, sub_ok \in BOOLEAN :
                                    in_xfer_cb(led_ok, sub_ok))
    /\ WF_vars(\E open_ok \in BOOLEAN : DeviceTaskWake(open_ok))
    /\ WF_vars(\/ OpenStability
               \/ \E outcome \in {"ok", "desc_err", "wrong_id", "config_err",
                                  "no_endpoints"} : OpenDescriptors(outcome)
               \/ \E outcome \in {"ok", "claim_err", "alloc_err", "submit_err"} :
                      OpenClaim(outcome)
               \/ \E alloc_ok \in BOOLEAN, led_ok \in BOOLEAN :
                      OpenOutAlloc(alloc_ok, led_ok)
               \/ OpenReturn)

\* C30: when a NEW_DEV was handled while an open was in flight, that open has
\* returned without the receiver connected, the receiver is still attached and
\* no event is left in the queue, then open_device is eventually started again
\* (or, at the least, a further event is handled first).
ArrivalNotLost ==
    (/\ rx_last.ev = "NEW_DEV" /\ rx_last.opening
     /\ open_pc = "idle" /\ ~s_receiver_connected
     /\ bus_present /\ client_events = <<>>)
        ~> (open_pc # "idle" \/ ~(rx_last.ev = "NEW_DEV" /\ rx_last.opening))

\* C31: while the receiver is attached and no removal has been signalled, the
\* run of in_xfer_cb for a completed IN transfer (the resubmission itself not
\* failing) leaves the transfer submitted again, also when the callback runs
\* before open_device has finished.
InboundResubmitted ==
    [][(/\ \E led_ok \in BOOLEAN : in_xfer_cb(led_ok, TRUE)
        /\ in_result.status = "COMPLETED"
        /\ bus_present /\ ~s_device_gone
        /\ \A k \in 1 .. Len(client_events) : client_events[k] # "DEV_GONE")
            => s_in_xfer' = "inflight"]_vars

\* C32: the slot table is written only by an actor that holds s_state_mutex:
\* no step changes s_controller_state while another actor holds the mutex.
SlotTableUnderLock ==
    [][s_controller_state' # s_controller_state => s_state_mutex = "free"]_vars

TransmitterCadence ==
    /\ []((tx_pc = "wait" /\ s_running) => ENABLED (TxTake \/ TxTimeout))
    /\ [](tx_pc = "locked" => ENABLED TxSend)
    /\ [][(TxSend \/ TxTimeout) => (tx_log'.sent /\ DOMAIN uart' = 0 .. 25)]_vars
    /\ [](fwd_pc = "wait" => ENABLED (FwdTakeG \/ FwdTimeoutG))
    /\ [](fwd_pc = "has_g" => ENABLED (FwdTakeS \/ FwdTimeoutS))
    /\ [](fwd_pc = "has_gs" => ENABLED FwdStore)
    /\ [](cb_pc # CbIdle => ENABLED CbStore)

\* a tick sent its frame on the timeout path while the forwarding task held
\* both locks
TransmitterCadenceWitness ==
    /\ tx_log.sent /\ ~tx_log.locked
    /\ DOMAIN uart = 0 .. 25
    /\ fwd_pc = "has_gs"
    /\ g_channels_mutex = "fwd" /\ s_channels_mutex = "fwd"

\* the BTN_* masks of the 16-bit button word, by flag of xbox_buttons_t
BTN_MASK ==
    [dpad_up |-> 1, dpad_down |-> 2, dpad_left |-> 4, dpad_right |-> 8,
     start |-> 16, back |-> 32, left_stick |-> 64, right_stick |-> 128,
     lb |-> 256, rb |-> 512, guide |-> 1024,
     a |-> 4096, b |-> 8192, x |-> 16384, y |-> 32768]

\* C35: after an accepted input report (the callback ran) every button flag of
\* the slot equals its mask bit in the little-endian word at bytes 6-7.
ButtonFlagsDecoded ==
    (InputReportHandled /\ Len(rx_last.cbs) = 1) =>
        \A n \in ButtonNames :
            s_controller_state[XBOX_SLOT_1].buttons[n]
                = (BitAnd(BitOr(rx_last.data[7], Shl(rx_last.data[8], 8)), BTN_MASK[n]) # 0)

\* C36: while s_device_gone is set and an open is pending or in flight, no step
\* clears the flag unless open_device has returned by the end of it: neither a
\* NEW_DEV handled in between nor the start of the pending open clears it.
DeviceGoneKept ==
    [][(/\ s_device_gone
        /\ (open_pc # "idle" \/ s_pending_dev_addr # 0)
        /\ open_pc' # "idle") => s_device_gone']_vars

\* C37: the IN transfer is freed (s_in_xfer becomes NULL) only when it is not
\* submitted: neither in flight nor completed with its callback still to run.
InFreedOnlyWhenIdle ==
    [][(s_in_xfer # "null" /\ s_in_xfer' = "null") => s_in_xfer = "idle"]_vars

(***************************************************************************)
(* SpecLed: send_player_led statement by statement.  open_device calls it  *)
(* in device_task right after the OUT transfer is allocated; in_xfer_cb    *)
(* calls it in the client task for a connect notification.  The test of    *)
(* s_out_pending, the memcpy into the transfer's buffer and the submission *)
(* are separate statements, and nothing keeps the two tasks apart.         *)
(***************************************************************************)

\* state of open_device at the call of send_player_led(XBOX_SLOT_1): the IN
\* transfer is submitted, the OUT transfer is allocated
InitLed ==
    /\ s_controller_state = [i \in Slots |-> ZeroState]
    /\ s_state_mutex = "free"
    /\ s_receiver_connected = FALSE
    /\ s_opening_device = TRUE
    /\ s_device_gone = FALSE
    /\ s_device_hdl = TRUE
    /\ s_in_xfer = "inflight"
    /\ in_result = NoResult
    /\ s_out_xfer = "idle"
    /\ s_out_pending = FALSE
    /\ s_ep_in_addr = 129
    /\ s_ep_out_addr = 1
    /\ s_pending_dev_addr = 1
    /\ s_device_addr = 0
    /\ s_device_sem = 0
    /\ open_pc = "in_submitted"
    /\ open_i = STABILITY_CHECKS
    /\ bus_present = TRUE
    /\ client_events = <<>>
    /\ get_pc = GetIdle
    /\ get_last = NoRead
    /\ led_pc = [open |-> "call", cb |-> "none"]
    /\ rx_last = NoHandler
    /\ CrsfInit
    /\ ClockInit
    /\ MainInit
    /\ s_config = MIXER_CONFIG_DEFAULT
    /\ mx_state = ZeroState
    /\ mx_out = NoVec
    /\ mx_pc = "ready"
    /\ mx_seen = {}

\* send_player_led, line 90: the test that makes the function return at once
LedSkips == s_out_xfer = "null" \/ ~s_device_hdl \/ s_out_pending

\* what a step of send_player_led leaves alone
LedFrame ==
    UNCHANGED <<s_controller_state, s_state_mutex, s_device_gone, s_device_hdl,
                s_ep_in_addr, s_ep_out_addr, s_pending_dev_addr, s_device_addr,
                s_device_sem, open_i, bus_present, client_events, get_pc, get_last,
                rx_last, mixerVars, crsfVars, clockVars, mainVars>>

\* open_device calls send_player_led: the test of line 90
OpenLedCall ==
    /\ led_pc.open = "call"
    /\ led_pc' = [led_pc EXCEPT !.open = IF LedSkips THEN "ret" ELSE "fill"]
    /\ UNCHANGED <<s_receiver_connected, s_opening_device, s_in_xfer, in_result,
                   s_out_xfer, s_out_pending, open_pc>>
    /\ LedFrame

\* in_xfer_cb, for a completed 2-byte report starting with 0x08, calls
\* send_player_led: the test of line 90
CbLedCall ==
    /\ s_in_xfer = "done"
    /\ led_pc.cb = "none"
    /\ in_result.status = "COMPLETED"
    /\ ReportKind(in_result.data) = "notify"
    /\ led_pc' = [led_pc EXCEPT !.cb = IF LedSkips THEN "ret" ELSE "fill"]
    /\ UNCHANGED <<s_receiver_connected, s_opening_device, s_in_xfer, in_result,
                   s_out_xfer, s_out_pending, open_pc>>
    /\ LedFrame

\* send_player_led, lines 98-99: memcpy of the LED command into the buffer of
\* s_out_xfer
LedFill(actor) ==
    /\ led_pc[actor] = "fill"
    /\ led_pc' = [led_pc EXCEPT ![actor] = "submit"]
    /\ UNCHANGED <<s_receiver_connected, s_opening_device, s_in_xfer, in_result,
                   s_out_xfer, s_out_pending, open_pc>>
    /\ LedFrame

\* send_player_led, lines 101-108: s_out_pending = true, then
\* usb_host_transfer_submit, which returns ESP_OK or an error
LedSubmit(actor, ok) ==
    /\ led_pc[actor] = "submit"
    /\ s_out_pending' = ok
    /\ s_out_xfer' = IF ok THEN "inflight" ELSE s_out_xfer
    /\ led_pc' = [led_pc EXCEPT ![actor] = "ret"]
    /\ UNCHANGED <<s_receiver_connected, s_opening_device, s_in_xfer, in_result, open_pc>>
    /\ LedFrame

\* open_device after send_player_led: s_device_addr, s_receiver_connected = true
OpenLedReturn ==
    /\ led_pc.open = "ret"
    /\ led_pc' = [led_pc EXCEPT !.open = "none"]
    /\ s_device_addr' = s_pending_dev_addr
    /\ s_receiver_connected' = TRUE
    /\ open_pc' = "ready"
    /\ UNCHANGED <<s_controller_state, s_state_mutex, s_opening_device, s_device_gone,
                   s_device_hdl, s_in_xfer, in_result, s_out_xfer, s_out_pending,
                   s_ep_in_addr, s_ep_out_addr, s_pending_dev_addr, s_device_sem, open_i,
                   bus_present, client_events, get_pc, get_last, rx_last>>
    /\ UNCHANGED <<mixerVars, crsfVars, clockVars, mainVars>>

\* in_xfer_cb after send_player_led: the resubmission of the IN transfer
CbLedReturn(sub_ok) ==
    /\ led_pc.cb = "ret"
    /\ led_pc' = [led_pc EXCEPT !.cb = "none"]
    /\ s_in_xfer' = IF s_receiver_connected /\ s_device_hdl /\ ~s_device_gone /\ sub_ok
                    THEN "inflight" ELSE "idle"
    /\ in_result' = NoResult
    /\ UNCHANGED <<s_receiver_connected, s_opening_device, s_out_xfer, s_out_pending,
                   open_pc>>
    /\ LedFrame

NextLed ==
    \/ \E data \in {Notify00, Notify80} : XferComplete("COMPLETED", data)
    \/ OpenLedCall
    \/ CbLedCall
    \/ \E actor \in {"open", "cb"} : LedFill(actor)
    \/ \E actor \in {"open", "cb"}, ok \in BOOLEAN : LedSubmit(actor, ok)
    \/ OpenLedReturn
    \/ \E sub_ok \in BOOLEAN : CbLedReturn(sub_ok)
    \/ OpenReturn
    \/ out_xfer_cb

SpecLed == InitLed /\ [][NextLed]_vars

\* C38: the buffer of the OUT transfer is neither overwritten with a LED
\* command nor submitted while an earlier submission of it has not completed.
OutSubmissionExclusive ==
    [][(\E actor \in {"open", "cb"} :
            /\ led_pc[actor] \in {"fill", "submit"}
            /\ led_pc'[actor] # led_pc[actor]) => s_out_xfer # "inflight"]_vars

\* C39: whatever the configuration, a paddle or button index of 16 or more
\* included, mixer_process has written only elements 0..15 of its output.
MixerWritesInside ==
    mx_pc = "done" => DOMAIN mx_out = Channels

\* the whole-vector values of the composed system: the initial store and the
\* all-center fallback, the disconnected safe vector (also the initial
\* g_channels), and the mixer's output for each state the callback receives
WholeVectors ==
    {AllMid, [AllMid EXCEPT ![RC_CH_THROTTLE] = CRSF_CHANNEL_MIN]}
        \cup {mixer_process(state, s_config) : state \in CallbackStates}

\* C40: each channel-vector lock is held by the one actor that is inside its
\* critical section, and the 16 channel values of every transmitted frame are
\* those of one whole vector: the initial one, one mixer output, the
\* disconnected safe vector or the all-center fallback.
NoTornVector ==
    /\ tx_pc = "locked" <=> s_channels_mutex = "tx"
    /\ fwd_pc = "has_gs" <=> s_channels_mutex = "fwd"
    /\ fwd_pc \in {"has_g", "has_gs"} <=> g_channels_mutex = "fwd"
    /\ cb_pc # CbIdle <=> g_channels_mutex = "cb"
    /\ s_channels \in WholeVectors
    /\ g_channels \in WholeVectors
    /\ tx_log.sent => FrameVector(uart) \in WholeVectors

\* a frame sent under the lock carries the mixer's output for full throttle
NoTornVectorWitness ==
    /\ tx_log.sent /\ tx_log.locked
    /\ FrameVector(uart) \notin {AllMid, [AllMid EXCEPT ![RC_CH_THROTTLE] = CRSF_CHANNEL_MIN]}
    /\ \E state \in CallbackStates :
          /\ state.connected /\ state.right_trigger = 255
          /\ FrameVector(uart) = mixer_process(state, s_config)

=============================================================================
